---- MODULE Spec2Model ----
(***************************************************************************)
(* HEART BALLOON POP: the main loop (main.py) driving the Game session     *)
(* (src/game.py).                                                          *)
(*                                                                         *)
(* Units.  Time is counted in tenths of a second (dt, ages, the cooldown,  *)
(* the spawn interval, the game duration).  Positions, radii and distances *)
(* of the virtual playfield are counted in tenths of a virtual unit, so    *)
(* that speed [unit/s] * dt [s/10] is a displacement in tenths of a unit.  *)
(* A ShootEffect's radius is stored multiplied by its lifetime             *)
(* (3 + 17 * age / 0.3 is not a whole number of tenths).                   *)
(*                                                                         *)
(* Time stamps.  The program keeps three readings of time.time()           *)
(* (game_start_time, last_shoot_time, last_balloon_spawn) and uses each    *)
(* only in a subtraction from a later reading that is compared with a      *)
(* constant.  The model keeps, for each stamp, the time that has passed    *)
(* since it was taken (since_...), capped at the constant it is compared   *)
(* with: "stamp = the current reading" is "since = 0", "stamp unchanged"   *)
(* is "since grows with the clock only".  The stamps of a fresh Game are 0 *)
(* (the year 1970), so their time since is at the cap.                     *)
(*                                                                         *)
(* Clock.  One iteration of the loop reads the clock at its top; d is the  *)
(* time that passed since the previous iteration's reading (camera read,   *)
(* event handling, run_frame, clock.tick).  The readings taken later in    *)
(* the same iteration (shoot, start_game, update) are taken to be that     *)
(* same instant.                                                           *)
(*                                                                         *)
(* Colours, fonts, surfaces, the camera preview and the screenshot file    *)
(* are drawing data read by no game rule and are left out; of draw() the   *)
(* model keeps the value the result screen computes, tickets_seconds       *)
(* (<<>> when the last frame drew another screen).                         *)
(*                                                                         *)
(* op is a history variable: the step just taken (name), its input (arg),  *)
(* the position of the shoot call it made (shot, <<>> when none), a        *)
(* summary of the session before it (was) and, of the detect call it made  *)
(* (frame, <<>> when none), the hands in the frame, the tuple returned and *)
(* the status text on the debug frame; and the random draws x, speed,      *)
(* rand_val of the spawn_balloon call it made (draw, <<>> when none); and  *)
(* the time measured at the top of the loop (delta, <<>> elsewhere).       *)
(*                                                                         *)
(* lifecycle is the sequence of the calls main has made on its resources   *)
(* (CameraManager.initialize, the constructors, the three releases) and of *)
(* the way it ended ("return 0", "return 1", "raise").                     *)
(***************************************************************************)
EXTENDS Integers, Sequences, FiniteSets, TLC

VARIABLES
    state,               \* Game.state
    score,               \* Game.score
    balloons_popped,     \* Game.balloons_popped
    since_game_start,    \* time.time() - Game.game_start_time
    since_last_shoot,    \* time.time() - Game.last_shoot_time
    since_last_spawn,    \* time.time() - Game.last_balloon_spawn
    balloons,            \* Game.balloons
    shoot_effects,       \* Game.shoot_effects
    running,             \* Game.running
    is_aiming,           \* Game.is_aiming
    aiming_position,     \* Game.aiming_position
    last_heart_state,    \* main: last_heart_state
    last_aiming_position,\* main: last_aiming_position
    dt,                  \* main: dt of the current iteration
    pc,                  \* main: position in the loop body
    handled,             \* main: events handled so far in this iteration
    tickets_seconds,     \* _draw_result_screen: tickets_seconds of the last frame drawn
    heart_detector,      \* HeartDetector: shoot_detected, last_shoot_position, aiming,
                         \* aiming_position
    lifecycle,           \* main: the acquisitions and releases made, the way it ended
    op                   \* history: the operation the last step performed

vars == <<state, score, balloons_popped, since_game_start, since_last_shoot,
          since_last_spawn, balloons, shoot_effects, running, is_aiming,
          aiming_position, last_heart_state, last_aiming_position,
          dt, pc, handled, tickets_seconds, heart_detector, lifecycle, op>>

\* The fields of the session no clock tick changes.
entities == <<score, balloons_popped, balloons, shoot_effects>>

stamps == <<since_game_start, since_last_shoot, since_last_spawn>>

session == <<state, entities, stamps>>

aim == <<is_aiming, aiming_position>>

tracker == <<last_heart_state, last_aiming_position>>

\* What a call of detect writes.
detection == <<heart_detector>>

\* The session as the step about to be taken finds it.
Was == [state |-> state, score |-> score, popped |-> balloons_popped,
        balloons |-> Len(balloons), effects |-> Len(shoot_effects),
        heart |-> last_heart_state]

Op(name, arg, shot) ==
    [name |-> name, arg |-> arg, shot |-> shot, was |-> Was, frame |-> <<>>,
     draw |-> <<>>, delta |-> <<>>]

-----------------------------------------------------------------------------
(* Program constants                                                       *)

VIRTUAL_WIDTH == 480
VIRTUAL_HEIGHT == 270
GAME_DURATION == 300           \* 30 s
BALLOON_SPAWN_INTERVAL == 8    \* 0.8 s
BALLOON_SPEED_MIN == 20
BALLOON_SPEED_MAX == 40
BALLOON_SIZE == 12
SHOOT_COOLDOWN == 3            \* 0.3 s
HIT_RADIUS == 15
EFFECT_LIFETIME == 3           \* 0.3 s
EFFECT_RADIUS == 3
EFFECT_MAX_RADIUS == 20
MAX_DT == 1                    \* 0.1 s
NORM == 1000                   \* the normalised gesture space is 0..1000
MANUAL_X == 500
MANUAL_Y == 500
TICKET_MAX == 90
TICKET_FULL == 30
TICKET_MID == 15
TICKET_STEP == 6

\* Python's None: as a command or an input, and where a position is expected
None == "None"
NoPosition == <<>>

States == {"READY", "RUN", "RESULT"}

BalloonTypes == {"normal", "bonus", "penalty", "fast", "zigzag", "ultra_rare"}

\* Virtual units to tenths of a unit.
Tenths(u) == u * 10

-----------------------------------------------------------------------------
(* Bounds and inputs of the model                                          *)

\* During a game the clock is followed in short steps up to MaxTime after
\* the start; past it, it advances in long steps only.
MaxTime == 9
\* Events returned by one pygame.event.get().
MaxEvents == 2

\* The time that passes between the clock readings of two iterations.
ShortSteps == {0, 1, BALLOON_SPAWN_INTERVAL}
LongSteps == {GAME_DURATION - 1}

\* random.randint(BALLOON_SIZE, VIRTUAL_WIDTH - BALLOON_SIZE)
SpawnXs == {240}
\* random.uniform(BALLOON_SPEED_MIN, BALLOON_SPEED_MAX)
SpawnSpeeds == {BALLOON_SPEED_MAX}
\* random.random(), in hundredths: a normal and a penalty balloon
RandVals == {35, 75}
\* Aiming positions the classifier reports (normalised 0..1000).
AimPoints == {<<500, 1000>>}
\* Shoot positions the classifier reports.
ShootPoints == {<<500, 200>>}

-----------------------------------------------------------------------------
(* Balloon                                                                 *)

\* Every rewarding balloon worth 15 points
ScoreValueUniform(balloon_type) ==
    CASE balloon_type = "penalty" -> -30
      [] OTHER -> 15

ScoreValue(balloon_type) ==
    CASE balloon_type = "bonus" -> 20
      [] balloon_type = "penalty" -> -30
      [] balloon_type = "fast" -> 15
      [] balloon_type = "zigzag" -> 15
      [] balloon_type = "ultra_rare" -> 100
      [] OTHER -> 10

Radius(balloon_type) ==
    CASE balloon_type = "bonus" -> Tenths(BALLOON_SIZE + 2)
      [] balloon_type = "ultra_rare" -> Tenths(BALLOON_SIZE + 3)
      [] OTHER -> Tenths(BALLOON_SIZE)

\* The fast balloon at twice the base speed
SpeedFastDouble(speed, balloon_type) ==
    CASE balloon_type = "fast" -> speed * 2
      [] balloon_type = "ultra_rare" -> speed * 3
      [] OTHER -> speed

\* speed *= 1.8 (fast), speed *= 3.0 (ultra_rare)
Speed(speed, balloon_type) ==
    CASE balloon_type = "fast" -> (speed * 18) \div 10
      [] balloon_type = "ultra_rare" -> speed * 3
      [] OTHER -> speed

\* Balloon.__init__(x, y, color, speed, balloon_type); x, y in virtual units.
NewBalloon(x, y, speed, balloon_type) ==
    [x |-> Tenths(x), y |-> Tenths(y), initial_x |-> Tenths(x),
     speed |-> Speed(speed, balloon_type), radius |-> Radius(balloon_type),
     alive |-> TRUE, balloon_type |-> balloon_type, age |-> 0,
     score_value |-> ScoreValue(balloon_type)]

\* math.sin(age * 3) * 30, in tenths of a unit, for age = 0, 1, 2, ... tenths
\* of a second (rounded to the nearest tenth of a unit).
SinTable == <<0, 89, 169, 235, 280, 299, 292, 259, 203, 128, 42, -47, -133,
              -206, -261, -293, -299, -278, -232, -165, -84, 5, 93, 174, 238,
              281, 300, 291, 256, 199, 124, 37, -52, -137, -210, -264, -294,
              -298, -276, -229, -161, -79, 10, 98, 178, 241, 283, 300, 290,
              254, 195, 119, 32, -57, -142, -214, -266, -295, -298, -274,
              -225, -157, -74, 15, 103, 182, 244, 285, 300, 288, 251, 191,
              114, 27, -62, -146, -217, -269, -296, -297, -272, -222, -152,
              -69, 20, 108, 186, 247, 286, 300, 287, 248, 187, 110, 22, -67,
              -151, -220, -271, -297, -296, -269, -219, -148, -64, 25, 112,
              190, 250, 288, 300, 285, 245, 183, 105, 17, -72, -155, -224,
              -273, -298, -296, -267, -215, -144, -59, 30, 117, 193, 253,
              289, 300, 284, 242, 179, 100, 12, -77, -159, -227, -275, -298,
              -295, -265, -211, -139, -54, 35, 122, 197, 255, 290, 300, 282,
              239, 175, 95, 7, -82, -163, -230>>

ZigzagOffset(age) == SinTable[age + 1]

\* Balloon.update with the sine added to the current x
BalloonUpdateDrift(b, d) ==
    LET age1 == b.age + d
        y1 == b.y - b.speed * d
        x1 == IF b.balloon_type = "zigzag"
                THEN b.x + ZigzagOffset(age1) ELSE b.x
    IN [b EXCEPT !.age = age1, !.y = y1, !.x = x1,
                 !.alive = IF y1 < -(b.radius * 2) THEN FALSE ELSE b.alive]

\* Off the screen already at twice the radius above the top
OffScreenAtEdge(y, radius) == y <= -(radius * 2)

\* if self.y < -self.radius * 2
OffScreen(y, radius) == y < -(radius * 2)

\* Balloon.update(dt)
BalloonUpdate(b, d) ==
    LET age1 == b.age + d
        y1 == b.y - b.speed * d
        x1 == IF b.balloon_type = "zigzag"
                THEN b.initial_x + ZigzagOffset(age1) ELSE b.x
    IN [b EXCEPT !.age = age1, !.y = y1, !.x = x1,
                 !.alive = IF OffScreen(y1, b.radius) THEN FALSE ELSE b.alive]

\* Balloon.collides_with(x, y, radius): distance < self.radius + radius.
\* The squares are compared; a coordinate difference of the sum of the radii
\* or more decides without squaring.
CollidesWith(b, x, y, radius) ==
    LET dx == b.x - x
        dy == b.y - y
        r == b.radius + radius
    IN /\ dx < r /\ -dx < r /\ dy < r /\ -dy < r
       /\ dx * dx + dy * dy < r * r

-----------------------------------------------------------------------------
(* ShootEffect                                                             *)

\* ShootEffect.__init__(x, y); radius is stored times EFFECT_LIFETIME.
NewShootEffect(x, y) ==
    [x |-> x, y |-> y, radius |-> Tenths(EFFECT_RADIUS) * EFFECT_LIFETIME,
     alive |-> TRUE, age |-> 0]

\* ShootEffect.update that keeps expanding the radius after the lifetime
EffectUpdateGrowing(e, d) ==
    LET age1 == e.age + d
    IN [e EXCEPT !.age = age1,
                 !.alive = IF age1 >= EFFECT_LIFETIME THEN FALSE ELSE e.alive,
                 !.radius = Tenths(EFFECT_RADIUS) * EFFECT_LIFETIME
                            + Tenths(EFFECT_MAX_RADIUS - EFFECT_RADIUS) * age1]

\* ShootEffect.update(dt)
EffectUpdate(e, d) ==
    LET age1 == e.age + d
    IN IF age1 >= EFFECT_LIFETIME
         THEN [e EXCEPT !.age = age1, !.alive = FALSE]
         ELSE [e EXCEPT !.age = age1,
                        !.radius = Tenths(EFFECT_RADIUS) * EFFECT_LIFETIME
                                   + Tenths(EFFECT_MAX_RADIUS - EFFECT_RADIUS) * age1]

-----------------------------------------------------------------------------
(* Game                                                                    *)

\* random.random() is drawn in hundredths; the first type whose cumulative
\* probability reaches the draw, "normal" when none does.
CumulativeProb == <<35, 55, 75, 85, 95, 100>>
TypeOrder == <<"normal", "bonus", "penalty", "fast", "zigzag", "ultra_rare">>

\* The type chosen only below the cumulative probability
RECURSIVE PickTypeBelow(_, _)
PickTypeBelow(rand_val, i) ==
    IF i > Len(TypeOrder) THEN "normal"
    ELSE IF rand_val < CumulativeProb[i] THEN TypeOrder[i]
    ELSE PickTypeBelow(rand_val, i + 1)

RECURSIVE PickType(_, _)
PickType(rand_val, i) ==
    IF i > Len(TypeOrder) THEN "normal"
    ELSE IF rand_val <= CumulativeProb[i] THEN TypeOrder[i]
    ELSE PickType(rand_val, i + 1)

\* The x coordinate scaled against the height of the playfield
VirtualXByHeight(x) == (x * Tenths(VIRTUAL_HEIGHT)) \div NORM

\* (x / 1000.0) * VIRTUAL_WIDTH, (y / 1000.0) * VIRTUAL_HEIGHT
VirtualX(x) == (x * Tenths(VIRTUAL_WIDTH)) \div NORM
VirtualY(y) == (y * Tenths(VIRTUAL_HEIGHT)) \div NORM

\* min(since + d, cap): the time since a stamp, d later.
Later(since, d, cap) == IF since + d > cap THEN cap ELSE since + d

\* A cooldown one tenth of a second shorter
InCooldownShorter(since_shoot) == since_shoot < SHOOT_COOLDOWN - 1

\* current_time - self.last_shoot_time < SHOOT_COOLDOWN
InCooldown(since_shoot) == since_shoot < SHOOT_COOLDOWN

\* The index of the balloon the hit scan stops at, 0 when it reaches the end.
RECURSIVE HitScan(_, _, _, _)
HitScan(bs, vx, vy, i) ==
    IF i > Len(bs) THEN 0
    ELSE IF bs[i].alive /\ CollidesWith(bs[i], vx, vy, Tenths(HIT_RADIUS)) THEN i
    ELSE HitScan(bs, vx, vy, i + 1)

\* The hit scan that takes the first colliding balloon, dead or alive
HitIndexAny(bs, vx, vy) ==
    LET hits == {i \in 1..Len(bs) : CollidesWith(bs[i], vx, vy, Tenths(HIT_RADIUS))}
    IN IF hits = {} THEN 0 ELSE CHOOSE i \in hits : \A j \in hits : i <= j

\* The hit scan that keeps the last colliding live balloon instead of the first
HitIndexLast(bs, vx, vy) ==
    LET hits == {i \in 1..Len(bs) :
                    bs[i].alive /\ CollidesWith(bs[i], vx, vy, Tenths(HIT_RADIUS))}
    IN IF hits = {} THEN 0 ELSE CHOOSE i \in hits : \A j \in hits : j <= i

HitIndex(bs, vx, vy) == HitScan(bs, vx, vy, 1)

\* The popped count raised by every hit
PoppedAfterAnyHit(popped, score_value) == popped + 1

\* if balloon.score_value > 0: self.balloons_popped += 1
PoppedAfterHit(popped, score_value) ==
    IF score_value > 0 THEN popped + 1 ELSE popped

\* Game.shoot(x, y)
Shoot(x, y) ==
    IF InCooldown(since_last_shoot)
      THEN UNCHANGED <<entities, since_last_shoot>>
      ELSE LET vx == VirtualX(x)
               vy == VirtualY(y)
               h == HitIndex(balloons, vx, vy)
           IN /\ shoot_effects' = Append(shoot_effects, NewShootEffect(vx, vy))
              /\ IF h = 0
                   THEN UNCHANGED <<balloons, score, balloons_popped>>
                   ELSE /\ balloons' = [balloons EXCEPT ![h].alive = FALSE]
                        /\ score' = score + balloons[h].score_value
                        /\ balloons_popped' =
                               PoppedAfterHit(balloons_popped, balloons[h].score_value)
              /\ since_last_shoot' = 0

\* No tickets taken away below the middle count
CalculateTimeTicketsNonNegative(popped) ==
    IF popped >= TICKET_FULL THEN TICKET_MAX
    ELSE IF popped >= TICKET_MID THEN (popped - TICKET_MID) * TICKET_STEP
    ELSE 0

\* The linear scale without its maximum
CalculateTimeTicketsUnclamped(popped) == (popped - TICKET_MID) * TICKET_STEP

\* Game.calculate_time_tickets() for a popped count
CalculateTimeTickets(popped) ==
    IF popped >= TICKET_FULL THEN TICKET_MAX
    ELSE IF popped >= TICKET_MID THEN (popped - TICKET_MID) * TICKET_STEP
    ELSE (popped - TICKET_MID) * TICKET_STEP

calculate_time_tickets == CalculateTimeTickets(balloons_popped)

\* A spawn only after more than BALLOON_SPAWN_INTERVAL
SpawnDueStrict(since_spawn) == since_spawn > BALLOON_SPAWN_INTERVAL

\* The game over only after more than GAME_DURATION
TimeUpStrict(elapsed_time) == elapsed_time > GAME_DURATION

\* elapsed_time >= GAME_DURATION
TimeUp(elapsed_time) == elapsed_time >= GAME_DURATION

\* current_time - self.last_balloon_spawn >= BALLOON_SPAWN_INTERVAL
SpawnDue(since_spawn) == since_spawn >= BALLOON_SPAWN_INTERVAL

\* Nothing pruned
AliveOrDead(s) == s

\* [b for b in self.balloons if b.alive]
Alive(s) == SelectSeq(s, LAMBDA e : e.alive)

\* start_game without the two lines that empty the collections
StartGameKeeping ==
    /\ state' = "RUN"
    /\ score' = 0
    /\ balloons_popped' = 0
    /\ since_game_start' = 0
    /\ since_last_spawn' = 0
    /\ UNCHANGED <<balloons, shoot_effects>>

\* Game.start_game()
StartGame ==
    /\ state' = "RUN"
    /\ score' = 0
    /\ balloons_popped' = 0
    /\ since_game_start' = 0
    /\ since_last_spawn' = 0
    /\ balloons' = <<>>
    /\ shoot_effects' = <<>>

\* start_game setting last_shoot_time back to 0
ShootStampAfterStartCleared(since_shoot) == SHOOT_COOLDOWN

\* start_game does not assign last_shoot_time.
ShootStampAfterStart(since_shoot) == since_shoot

\* The restart key emptying the session as start_game does
RestartClearing ==
    /\ state' = "READY"
    /\ score' = 0
    /\ balloons_popped' = 0
    /\ balloons' = <<>>
    /\ shoot_effects' = <<>>
    /\ UNCHANGED stamps

\* self.state = "READY"; return None
Restart ==
    /\ state' = "READY"
    /\ UNCHANGED <<entities, stamps>>

\* Game.spawn_balloon() with its random draws x, speed, rand_val
SpawnBalloon(bs, x, speed, rand_val) ==
    Append(bs, NewBalloon(x, VIRTUAL_HEIGHT + BALLOON_SIZE, speed,
                          PickType(rand_val, 1)))

\* This update calls spawn_balloon.
Spawns == state = "RUN" /\ ~TimeUp(since_game_start) /\ SpawnDue(since_last_spawn)

\* last_balloon_spawn left alone by a spawn
SpawnStampKept(due, since_spawn) == since_spawn

\* self.last_balloon_spawn = current_time, after spawn_balloon
SpawnStamp(due, since_spawn) == IF due THEN 0 ELSE since_spawn

\* update active in every state
UpdateActiveAlways(st) == TRUE

\* elif self.state == "RUN":
UpdateActive(st) == st = "RUN"

\* Game.update(dt); x, speed, rand_val are the draws of spawn_balloon
Update(d, x, speed, rand_val) ==
    IF UpdateActive(state)
      THEN IF TimeUp(since_game_start)
             THEN /\ state' = "RESULT"
                  /\ UNCHANGED <<balloons, shoot_effects, since_last_spawn>>
             ELSE LET due == SpawnDue(since_last_spawn)
                      spawned == IF due THEN SpawnBalloon(balloons, x, speed, rand_val)
                                 ELSE balloons
                  IN /\ UNCHANGED state
                     /\ since_last_spawn' = SpawnStamp(due, since_last_spawn)
                     /\ balloons' =
                            Alive([i \in 1..Len(spawned) |-> BalloonUpdate(spawned[i], d)])
                     /\ shoot_effects' =
                            Alive([i \in 1..Len(shoot_effects) |->
                                       EffectUpdate(shoot_effects[i], d)])
      ELSE UNCHANGED <<state, balloons, shoot_effects, since_last_spawn>>

-----------------------------------------------------------------------------
(* HeartDetector.  A landmark is <<x, y>> in ten-thousandths of the frame  *)
(* (MediaPipe reports fractions of the frame size); a hand is a function   *)
(* from the landmark indices to landmarks; multi_hand_landmarks is the     *)
(* sequence of hands found in the frame, <<>> when there is none.  Angles  *)
(* are in hundredths of a degree.                                          *)

WRIST == 0
THUMB_TIP == 4
INDEX_PIP == 6
INDEX_TIP == 8
MIDDLE_PIP == 10
MIDDLE_TIP == 12
RING_PIP == 14
RING_TIP == 16
PINKY_PIP == 18
PINKY_TIP == 20
EXTENDED_MARGIN == 150         \* 0.015 of the frame height
SHOOT_ANGLE_MIN == 225
SHOOT_ANGLE_MAX == 315
FULL_TURN == 360

LandmarkIds == {WRIST, THUMB_TIP, INDEX_PIP, INDEX_TIP, MIDDLE_PIP, MIDDLE_TIP,
                RING_PIP, RING_TIP, PINKY_PIP, PINKY_TIP}

\* Landmark units per unit of the normalised 0..1000 space.
LandmarkScale == (NORM * 10) \div NORM

Hundredths(degrees) == degrees * 100

\* int(v): the fraction is dropped, towards zero
IntOf(v, unit) == IF v >= 0 THEN v \div unit ELSE -((-v) \div unit)

\* A finger extended already with its tip exactly 0.015 above the PIP joint
IsFingerExtendedLoose(landmarks, finger_tip_idx, finger_pip_idx) ==
    landmarks[finger_tip_idx][2] <= landmarks[finger_pip_idx][2] - EXTENDED_MARGIN

\* tip_y < pip_y - 0.015
IsFingerExtended(landmarks, finger_tip_idx, finger_pip_idx) ==
    landmarks[finger_tip_idx][2] < landmarks[finger_pip_idx][2] - EXTENDED_MARGIN

\* np.degrees(np.arctan2(dy, dx)) for the directions <<dy, dx>> of the model's
\* hands, rounded to the hundredth of a degree.
ArcTan2Degrees ==
    (<<0, 0>> :> 0) @@ (<<0, 2000>> :> 0) @@ (<<2000, 2000>> :> 4500)
    @@ (<<2000, 0>> :> 9000) @@ (<<2000, -2000>> :> 13500)
    @@ (<<0, -2000>> :> 18000) @@ (<<-2000, -2100>> :> -13640)
    @@ (<<-2000, -2000>> :> -13500) @@ (<<-2100, -2000>> :> -13360)
    @@ (<<-2000, 0>> :> -9000) @@ (<<-2100, 2000>> :> -4640)
    @@ (<<-2000, 2000>> :> -4500) @@ (<<-2000, 2100>> :> -4360)

\* _detect_gun_gesture that aims only with the index finger extended
DetectGunGestureIndexOnly(landmarks) ==
    LET index_tip == landmarks[INDEX_TIP]
        wrist == landmarks[WRIST]
        position == <<IntOf(index_tip[1], LandmarkScale),
                      IntOf(index_tip[2], LandmarkScale)>>
        index_extended == IsFingerExtended(landmarks, INDEX_TIP, INDEX_PIP)
        is_strict_gun == /\ index_extended
                         /\ ~IsFingerExtended(landmarks, MIDDLE_TIP, MIDDLE_PIP)
                         /\ ~IsFingerExtended(landmarks, RING_TIP, RING_PIP)
                         /\ ~IsFingerExtended(landmarks, PINKY_TIP, PINKY_PIP)
        angle == ArcTan2Degrees[<<index_tip[2] - wrist[2], index_tip[1] - wrist[1]>>]
        angle_degrees == IF angle < 0 THEN angle + Hundredths(FULL_TURN) ELSE angle
    IN IF /\ Hundredths(SHOOT_ANGLE_MIN) <= angle_degrees
          /\ angle_degrees <= Hundredths(SHOOT_ANGLE_MAX)
          /\ is_strict_gun
         THEN <<position, FALSE, NoPosition>>
         ELSE IF index_extended THEN <<NoPosition, TRUE, position>>
         ELSE <<NoPosition, FALSE, NoPosition>>

\* HeartDetector._detect_gun_gesture(landmarks):
\* <<shoot_position, is_aiming, aiming_position>>
DetectGunGesture(landmarks) ==
    LET index_tip == landmarks[INDEX_TIP]
        wrist == landmarks[WRIST]
        position == <<IntOf(index_tip[1], LandmarkScale),
                      IntOf(index_tip[2], LandmarkScale)>>
        index_extended == IsFingerExtended(landmarks, INDEX_TIP, INDEX_PIP)
        middle_curled == ~IsFingerExtended(landmarks, MIDDLE_TIP, MIDDLE_PIP)
        ring_curled == ~IsFingerExtended(landmarks, RING_TIP, RING_PIP)
        pinky_curled == ~IsFingerExtended(landmarks, PINKY_TIP, PINKY_PIP)
        is_strict_gun == index_extended /\ middle_curled /\ ring_curled /\ pinky_curled
        dx == index_tip[1] - wrist[1]
        dy == index_tip[2] - wrist[2]
        angle == ArcTan2Degrees[<<dy, dx>>]
        angle_degrees == IF angle < 0 THEN angle + Hundredths(FULL_TURN) ELSE angle
    IN IF /\ Hundredths(SHOOT_ANGLE_MIN) <= angle_degrees
          /\ angle_degrees <= Hundredths(SHOOT_ANGLE_MAX)
          /\ is_strict_gun
         THEN <<position, FALSE, NoPosition>>
         ELSE <<NoPosition, TRUE, position>>

\* What detect returns, without the debug frame.
NoHand == [heart_detected |-> FALSE, heart_position |-> NoPosition,
           is_aiming |-> FALSE, aiming_position |-> NoPosition]

ShootVerdict(p) == [heart_detected |-> TRUE, heart_position |-> p,
                    is_aiming |-> FALSE, aiming_position |-> NoPosition]

AimVerdict(p) == [heart_detected |-> FALSE, heart_position |-> NoPosition,
                  is_aiming |-> TRUE, aiming_position |-> p]

Verdict(r) == IF r.heart_detected THEN "shoot"
              ELSE IF r.is_aiming THEN "aim" ELSE "nohand"

\* for hand_landmarks in results.multi_hand_landmarks: the first hand that
\* gives a shoot position or an aiming verdict decides.
RECURSIVE DetectLoop(_, _)
DetectLoop(hands, i) ==
    IF i > Len(hands) THEN NoHand
    ELSE LET g == DetectGunGesture(hands[i])
         IN IF g[1] # NoPosition THEN ShootVerdict(g[1])
            ELSE IF g[2] THEN AimVerdict(g[3])
            ELSE DetectLoop(hands, i + 1)

\* The tuple detect returns for the hands of a frame.
DetectReturn(hands) == IF hands = <<>> THEN NoHand ELSE DetectLoop(hands, 1)

\* get_debug_frame: the status text, from the detector's fields as they are
\* when it is called.
StatusText(hands) ==
    IF heart_detector.shoot_detected THEN "SHOOTING!"
    ELSE IF heart_detector.aiming THEN "AIMING"
    ELSE IF hands # <<>> THEN "HAND DETECTED"
    ELSE "NO HAND"

\* One call of detect: what MediaPipe finds in the frame, the tuple returned,
\* the status text of the debug frame returned with it.
DetectCall(hands) ==
    [hands |-> hands, returned |-> DetectReturn(hands), status_text |-> StatusText(hands)]

\* HeartDetector.detect(frame): every return path leaves the tuple it returns
\* in the detector's fields.
Detect(hands) ==
    LET r == DetectReturn(hands)
    IN heart_detector' = [shoot_detected |-> r.heart_detected,
                          last_shoot_position |-> r.heart_position,
                          aiming |-> r.is_aiming,
                          aiming_position |-> r.aiming_position]

\* A hand with its index tip at tip, its wrist at tip - toward, each of the
\* four fingers' PIP joint gaps[k] below its tip, and its thumb tip at thumb.
Hand(tip, toward, gaps, thumb) ==
    [i \in LandmarkIds |->
        CASE i = WRIST -> <<tip[1] - toward[1], tip[2] - toward[2]>>
          [] i = THUMB_TIP -> thumb
          [] i = INDEX_TIP -> tip
          [] i = INDEX_PIP -> <<tip[1], tip[2] + gaps[1]>>
          [] i = MIDDLE_TIP -> tip
          [] i = MIDDLE_PIP -> <<tip[1], tip[2] + gaps[2]>>
          [] i = RING_TIP -> tip
          [] i = RING_PIP -> <<tip[1], tip[2] + gaps[3]>>
          [] i = PINKY_TIP -> tip
          [] i = PINKY_PIP -> <<tip[1], tip[2] + gaps[4]>>]

\* The gun pointing straight up, index tip at the normalised position p.
GunUp(p) == Hand(<<p[1] * LandmarkScale, p[2] * LandmarkScale>>, <<0, -2000>>,
                 <<300, 0, 0, 0>>, <<0, 0>>)

\* An open hand, all fingers extended, index tip at the normalised position p.
OpenHand(p) == Hand(<<p[1] * LandmarkScale, p[2] * LandmarkScale>>, <<0, -2000>>,
                    <<300, 300, 300, 300>>, <<0, 0>>)

NoHands == <<>>

\* What MediaPipe finds in the frames of the model's camera.
FrameHands == {NoHands} \cup {<<GunUp(p)>> : p \in ShootPoints}
                        \cup {<<OpenHand(p)>> : p \in AimPoints}

-----------------------------------------------------------------------------
(* Game.handle_event                                                       *)

Events == {"QUIT", "K_ESCAPE", "K_q", "K_SPACE", "K_m", "K_r", "K_s", "OTHER"}

\* The quit events without the escape key
QuitEventsNoEscape == {"QUIT", "K_q"}

\* event.type == pygame.QUIT; event.key == pygame.K_ESCAPE or pygame.K_q
QuitEvents == {"QUIT", "K_ESCAPE", "K_q"}

\* handle_event with the start key accepted in every state
KeyCommandAnyState(st, e) ==
    IF e = "K_SPACE" THEN "start"
    ELSE IF st = "RUN" /\ e = "K_m" THEN "manual_shoot"
    ELSE IF st = "RESULT" /\ e = "K_s" THEN "save_screenshot"
    ELSE None

\* The command handle_event returns for a key that does not quit.
KeyCommand(st, e) ==
    IF st = "READY" /\ e = "K_SPACE" THEN "start"
    ELSE IF st = "RUN" /\ e = "K_m" THEN "manual_shoot"
    ELSE IF st = "RESULT" /\ e = "K_s" THEN "save_screenshot"
    ELSE None

\* The restart key accepted in every state
IsRestartAnyState(st, e) == e = "K_r"

\* elif self.state == "RESULT": if event.key == pygame.K_r
IsRestart(st, e) == st = "RESULT" /\ e = "K_r"

-----------------------------------------------------------------------------
(* The main loop                                                           *)

\* What main has done when it reaches the loop.
Started == <<"CameraManager.initialize", "HeartDetector", "Game">>

Init ==
    /\ state = "READY"
    /\ score = 0
    /\ balloons_popped = 0
    /\ since_game_start = GAME_DURATION
    /\ since_last_shoot = SHOOT_COOLDOWN
    /\ since_last_spawn = BALLOON_SPAWN_INTERVAL
    /\ balloons = <<>>
    /\ shoot_effects = <<>>
    /\ running = TRUE
    /\ is_aiming = FALSE
    /\ aiming_position = NoPosition
    /\ last_heart_state = FALSE
    /\ last_aiming_position = NoPosition
    /\ dt = 0
    /\ pc = "top"
    /\ handled = 0
    /\ tickets_seconds = <<>>
    /\ heart_detector = [shoot_detected |-> FALSE, last_shoot_position |-> NoPosition,
                         aiming |-> FALSE, aiming_position |-> NoPosition]
    /\ lifecycle = Started
    /\ op = Op("init", None, <<>>)

\* dt without the cap
CapDtNone(d) == d

\* if dt > 0.1: dt = 0.1
CapDt(d) == IF d > MAX_DT THEN MAX_DT ELSE d

\* while game.running: current_time = time.time(); dt = current_time -
\* last_time; last_time = current_time; if dt > 0.1: dt = 0.1
\* d is current_time - last_time.
LoopTop(d) ==
    /\ pc = "top"
    /\ running
    /\ since_game_start' = Later(since_game_start, d, GAME_DURATION)
    /\ since_last_shoot' = Later(since_last_shoot, d, SHOOT_COOLDOWN)
    /\ since_last_spawn' = Later(since_last_spawn, d, BALLOON_SPAWN_INTERVAL)
    /\ dt' = CapDt(d)
    /\ pc' = "camera"
    /\ op' = [Op("top", None, <<>>) EXCEPT !.delta = <<d>>]
    /\ UNCHANGED <<state, entities, running, aim, tracker, detection, handled,
                   tickets_seconds, lifecycle>>

\* The previous-shoot bit cleared when no frame was read
SkippedHeartStateCleared(heart_state) == FALSE

\* if frame_data: ... last_heart_state = heart_detected; nothing otherwise
SkippedHeartState(heart_state) == heart_state

\* camera_manager.read_frame() returned nothing
NoFrame ==
    /\ pc = "camera"
    /\ pc' = "events"
    /\ op' = Op("camera", "noframe", <<>>)
    /\ last_heart_state' = SkippedHeartState(last_heart_state)
    /\ UNCHANGED <<session, running, aim, last_aiming_position, detection, dt, handled,
                   tickets_seconds, lifecycle>>

\* The shot fired on every frame that shows the gesture
RisingEdgeShotLevel(heart_detected, lap) ==
    /\ heart_detected
    /\ state = "RUN" /\ lap # NoPosition

\* The shot fired at the position the classifier reports with the gesture
ShotPositionCurrent(r, lap) == r.heart_position

\* x, y = last_aiming_position
ShotPosition(r, lap) == lap

\* The rising edge shooting in every state
RisingEdgeShotAnyState(heart_detected, lap) ==
    /\ heart_detected /\ ~last_heart_state
    /\ lap # NoPosition

\* if heart_detected and not last_heart_state:
\*     if game.state == "RUN" and last_aiming_position is not None:
RisingEdgeShot(heart_detected, lap) ==
    /\ heart_detected /\ ~last_heart_state
    /\ state = "RUN" /\ lap # NoPosition

\* The gesture results applied in every state
AimingAppliesAlways(st) == TRUE

\* if game.state in ["READY", "RUN"]:
AimingApplies(st) == st \in {"READY", "RUN"}

\* The gesture remembered only once it has called shoot
TrackedHeartStateRetrying(heart_detected, fires) ==
    heart_detected /\ (fires \/ last_heart_state)

\* last_heart_state = heart_detected
TrackedHeartState(heart_detected, fires) == heart_detected

\* A frame was read: detect, set_camera_frame, set_aiming, the rising-edge
\* shot.  hands is what MediaPipe finds in the frame.
Frame(hands) ==
    /\ pc = "camera"
    /\ pc' = "events"
    /\ Detect(hands)
    /\ LET r == DetectReturn(hands)
           applies == AimingApplies(state)
           lap == IF applies /\ r.is_aiming /\ r.aiming_position # NoPosition
                    THEN r.aiming_position ELSE last_aiming_position
           fires == RisingEdgeShot(r.heart_detected, lap)
       IN /\ IF applies
               THEN /\ is_aiming' = r.is_aiming
                    /\ aiming_position' = r.aiming_position
               ELSE UNCHANGED aim
          /\ last_aiming_position' = lap
          /\ IF fires
               THEN Shoot(ShotPosition(r, lap)[1], ShotPosition(r, lap)[2])
               ELSE UNCHANGED <<entities, since_last_shoot>>
          /\ op' = [Op("camera", "frame", IF fires THEN ShotPosition(r, lap) ELSE <<>>)
                       EXCEPT !.frame = <<DetectCall(hands)>>]
    /\ last_heart_state' =
           TrackedHeartState(DetectReturn(hands).heart_detected,
                             RisingEdgeShot(DetectReturn(hands).heart_detected,
                                            last_aiming_position'))
    /\ UNCHANGED <<state, since_game_start, since_last_spawn, running, dt, handled,
                   tickets_seconds, lifecycle>>

\* One event of pygame.event.get(): handle_event and the command it returns.
HandleEvent(e) ==
    /\ pc = "events"
    /\ handled < MaxEvents
    /\ handled' = handled + 1
    /\ op' = Op("event", e,
                 IF e \notin QuitEvents /\ ~IsRestart(state, e)
                    /\ KeyCommand(state, e) = "manual_shoot"
                   THEN <<MANUAL_X, MANUAL_Y>> ELSE <<>>)
    /\ IF e \in QuitEvents
         THEN /\ running' = FALSE
              /\ UNCHANGED session
         ELSE
         IF IsRestart(state, e)
         THEN /\ Restart
              /\ UNCHANGED running
         ELSE
         LET command == KeyCommand(state, e)
         IN CASE command = "start" ->
                   /\ StartGame
                   /\ since_last_shoot' = ShootStampAfterStart(since_last_shoot)
                   /\ UNCHANGED running
              [] command = "manual_shoot" ->
                   /\ Shoot(MANUAL_X, MANUAL_Y)
                   /\ UNCHANGED <<state, since_game_start, since_last_spawn, running>>
              [] OTHER ->
                   \* save_screenshot writes a file; no command: nothing
                   UNCHANGED <<session, running>>
    /\ UNCHANGED <<aim, tracker, detection, dt, pc, tickets_seconds, lifecycle>>

\* Game.draw(): the result screen calls calculate_time_tickets()
Draw ==
    tickets_seconds' = IF state' = "RESULT" THEN <<calculate_time_tickets>> ELSE <<>>

\* game.run_frame(dt): update, draw; then clock.tick(60)
RunFrame(x, speed, rand_val) ==
    /\ pc = "events"
    /\ Update(dt, x, speed, rand_val)
    /\ Draw
    /\ pc' = "top"
    /\ handled' = 0
    /\ op' = [Op("run_frame", None, <<>>)
                 EXCEPT !.draw = IF Spawns THEN <<x, speed, rand_val>> ELSE <<>>]
    /\ UNCHANGED <<score, balloons_popped, since_game_start, since_last_shoot,
                   running, aim, tracker, detection, dt, lifecycle>>

\* The cleanup left out when an exception other than KeyboardInterrupt ends
\* the loop
FinallyUnlessError(ending) ==
    IF ending = "raise" THEN <<ending>>
    ELSE <<"camera_manager.release", "heart_detector.release", "game.quit", ending>>

\* finally: camera_manager.release(); heart_detector.release(); game.quit()
\* and then the way main ends.
Finally(ending) ==
    <<"camera_manager.release", "heart_detector.release", "game.quit", ending>>

\* The loop ends: the finally block, return 0.
Exit ==
    /\ pc = "top"
    /\ ~running
    /\ pc' = "done"
    /\ lifecycle' = lifecycle \o Finally("return 0")
    /\ op' = Op("exit", None, <<>>)
    /\ UNCHANGED <<session, running, aim, tracker, detection, dt, handled,
                   tickets_seconds>>

Exceptions == {"KeyboardInterrupt", "Exception"}

\* An exception raised inside an iteration of the loop: KeyboardInterrupt is
\* caught (the finally block, return 0), any other passes through the
\* finally block and out of main.
Raise(exception) ==
    /\ pc \in {"camera", "events"} \/ (pc = "top" /\ running)
    /\ pc' = "done"
    /\ lifecycle' = lifecycle \o
           Finally(IF exception = "KeyboardInterrupt" THEN "return 0" ELSE "raise")
    /\ op' = Op("raise", exception, <<>>)
    /\ UNCHANGED <<session, running, aim, tracker, detection, dt, handled,
                   tickets_seconds>>

\* The clock steps the model follows from the current state.
Steps(horizon) ==
    LongSteps \cup {d \in ShortSteps : state = "RUN" => since_game_start + d <= horizon}

Next ==
    \/ \E d \in Steps(MaxTime) : LoopTop(d)
    \/ NoFrame
    \/ \E hands \in FrameHands : Frame(hands)
    \/ \E e \in Events : HandleEvent(e)
    \/ \E x \in SpawnXs, speed \in SpawnSpeeds, rand_val \in RandVals :
           RunFrame(x, speed, rand_val)
    \/ Exit

Spec == Init /\ [][Next]_vars

-----------------------------------------------------------------------------
(* The same loop in a game played with shots only: no quit, no restart, no *)
(* long clock step, and more balloon columns, balloon types and aiming     *)
(* positions.                                                              *)

\* The clock is followed in short steps up to MaxShootTime after the start.
MaxShootTime == 17

ShootSteps == {1, BALLOON_SPAWN_INTERVAL}
\* A column in range of a shot at the bottom centre, and one 27 units left.
ShootXs == {213, 240}
\* A normal, a penalty and an ultra_rare balloon
ShootRandVals == {35, 75, 99}
ShootHands == {<<GunUp(p)>> : p \in ShootPoints}
                  \cup {<<OpenHand(p)>> : p \in {<<500, 1000>>, <<250, 500>>}}
ShootEvents == {"K_SPACE", "K_m"}

NextShoot ==
    \/ \E d \in {d \in ShootSteps : state = "RUN" => since_game_start + d <= MaxShootTime} :
           LoopTop(d)
    \/ \E hands \in ShootHands : Frame(hands)
    \/ \E e \in ShootEvents : HandleEvent(e)
    \/ \E x \in ShootXs, speed \in SpawnSpeeds, rand_val \in ShootRandVals :
           RunFrame(x, speed, rand_val)

SpecShoot == Init /\ [][NextShoot]_vars

-----------------------------------------------------------------------------
(* The first balloons of a game over the draws of spawn_balloon: every     *)
(* hundredth random.random() can return, the slowest and the fastest base  *)
(* speed; the player aims at the bottom centre and shoots.                 *)

\* The clock is followed up to MaxSpawnTime after the start.
MaxSpawnTime == 10

SpawnDraws == 0..99
SpawnBaseSpeeds == {BALLOON_SPEED_MIN, BALLOON_SPEED_MAX}
SpawnHands == {<<OpenHand(p)>> : p \in AimPoints} \cup {<<GunUp(p)>> : p \in ShootPoints}

NextSpawn ==
    \/ \E d \in {d \in ShootSteps : state = "RUN" => since_game_start + d <= MaxSpawnTime} :
           LoopTop(d)
    \/ \E hands \in SpawnHands : Frame(hands)
    \/ HandleEvent("K_SPACE")
    \/ \E x \in SpawnXs, speed \in SpawnBaseSpeeds, rand_val \in SpawnDraws :
           RunFrame(x, speed, rand_val)

SpecSpawn == Init /\ [][NextSpawn]_vars

-----------------------------------------------------------------------------
(* The first balloons of a game spawned at the ends and at the centre of   *)
(* the range of x; the player aims at the bottom centre and shoots.        *)

\* The ends of random.randint(BALLOON_SIZE, VIRTUAL_WIDTH - BALLOON_SIZE) and
\* the centre.
SpawnEdgeXs == {BALLOON_SIZE, VIRTUAL_WIDTH \div 2, VIRTUAL_WIDTH - BALLOON_SIZE}

NextEdges ==
    \/ \E d \in {d \in ShootSteps : state = "RUN" => since_game_start + d <= MaxShootTime} :
           LoopTop(d)
    \/ \E hands \in SpawnHands : Frame(hands)
    \/ HandleEvent("K_SPACE")
    \/ \E x \in SpawnEdgeXs, speed \in SpawnSpeeds, rand_val \in RandVals :
           RunFrame(x, speed, rand_val)

SpecEdges == Init /\ [][NextEdges]_vars

-----------------------------------------------------------------------------
(* One balloon on its own: Balloon.update called on a balloon of any type, *)
(* spawned at either speed, until it is past the top of the screen; at any *)
(* time a shot may mark it dead, as shoot does (balloon.alive = False).    *)

\* The age up to which a balloon is followed: the slowest is off the screen
\* after 15.4 s.
MaxBalloonAge == 155

InitBalloon ==
    /\ state = "RUN"
    /\ score = 0
    /\ balloons_popped = 0
    /\ since_game_start = 0
    /\ since_last_shoot = SHOOT_COOLDOWN
    /\ since_last_spawn = 0
    /\ \E x \in SpawnEdgeXs, speed \in SpawnBaseSpeeds, balloon_type \in BalloonTypes :
          balloons = <<NewBalloon(x, VIRTUAL_HEIGHT + BALLOON_SIZE, speed, balloon_type)>>
    /\ shoot_effects = <<>>
    /\ running = TRUE
    /\ is_aiming = FALSE
    /\ aiming_position = NoPosition
    /\ last_heart_state = FALSE
    /\ last_aiming_position = NoPosition
    /\ dt = 0
    /\ pc = "top"
    /\ handled = 0
    /\ tickets_seconds = <<>>
    /\ heart_detector = [shoot_detected |-> FALSE, last_shoot_position |-> NoPosition,
                         aiming |-> FALSE, aiming_position |-> NoPosition]
    /\ lifecycle = Started
    /\ op = Op("init", None, <<>>)

\* balloon.update(dt) on the balloon
UpdateBalloon(d) ==
    /\ balloons[1].age + d <= MaxBalloonAge
    /\ balloons' = <<BalloonUpdate(balloons[1], d)>>
    /\ op' = [Op("Balloon.update", None, <<>>) EXCEPT !.delta = <<d>>]
    /\ UNCHANGED <<state, score, balloons_popped, stamps, shoot_effects, running, aim,
                   tracker, detection, dt, pc, handled, tickets_seconds, lifecycle>>

\* balloon.alive = False
MarkDead ==
    /\ balloons[1].alive
    /\ balloons' = [balloons EXCEPT ![1].alive = FALSE]
    /\ op' = Op("alive = False", None, <<>>)
    /\ UNCHANGED <<state, score, balloons_popped, stamps, shoot_effects, running, aim,
                   tracker, detection, dt, pc, handled, tickets_seconds, lifecycle>>

NextBalloon ==
    \/ \E d \in {0, MAX_DT} : UpdateBalloon(d)
    \/ MarkDead

SpecBalloon == InitBalloon /\ [][NextBalloon]_vars

-----------------------------------------------------------------------------
(* One ShootEffect on its own: ShootEffect.update called with dt of 0, 0.1 *)
(* and 0.2 s on an effect made at a point of the playfield.                *)

\* The age up to which an effect is followed.
MaxEffectAge == 6

EffectPoints == {<<VirtualX(x), VirtualY(y)>> : x, y \in {0, 250, 500, 750, NORM}}

InitEffect ==
    /\ state = "RUN"
    /\ score = 0
    /\ balloons_popped = 0
    /\ since_game_start = 0
    /\ since_last_shoot = 0
    /\ since_last_spawn = 0
    /\ balloons = <<>>
    /\ \E p \in EffectPoints : shoot_effects = <<NewShootEffect(p[1], p[2])>>
    /\ running = TRUE
    /\ is_aiming = FALSE
    /\ aiming_position = NoPosition
    /\ last_heart_state = FALSE
    /\ last_aiming_position = NoPosition
    /\ dt = 0
    /\ pc = "top"
    /\ handled = 0
    /\ tickets_seconds = <<>>
    /\ heart_detector = [shoot_detected |-> FALSE, last_shoot_position |-> NoPosition,
                         aiming |-> FALSE, aiming_position |-> NoPosition]
    /\ lifecycle = Started
    /\ op = Op("init", None, <<>>)

\* effect.update(dt) on the effect
UpdateEffect(d) ==
    /\ shoot_effects[1].age + d <= MaxEffectAge
    /\ shoot_effects' = <<EffectUpdate(shoot_effects[1], d)>>
    /\ op' = [Op("ShootEffect.update", None, <<>>) EXCEPT !.delta = <<d>>]
    /\ UNCHANGED <<state, score, balloons_popped, stamps, balloons, running, aim,
                   tracker, detection, dt, pc, handled, tickets_seconds, lifecycle>>

NextEffect == \E d \in {0, MAX_DT, 2 * MAX_DT} : UpdateEffect(d)

SpecEffect == InitEffect /\ [][NextEffect]_vars

-----------------------------------------------------------------------------
(* Games in which nobody shoots: the camera shows no hand or an open hand, *)
(* the only keys are the start and the restart key.  The clock of a game   *)
(* is followed tick by tick up to MaxQuietTime and from anywhere straight  *)
(* to GAME_DURATION, never past it, so that a game ends with exactly       *)
(* GAME_DURATION on its clock.                                             *)

MaxQuietTime == 17

QuietSteps ==
    IF state = "RUN"
      THEN {d \in 1..GAME_DURATION :
               \/ d \in {1, BALLOON_SPAWN_INTERVAL} /\ since_game_start + d <= MaxQuietTime
               \/ since_game_start + d = GAME_DURATION}
      ELSE {1}

QuietHands == {NoHands} \cup {<<OpenHand(p)>> : p \in AimPoints}

QuietEvents == {"K_SPACE", "K_r"}

NextNoShots ==
    \/ \E d \in QuietSteps : LoopTop(d)
    \/ NoFrame
    \/ \E hands \in QuietHands : Frame(hands)
    \/ \E e \in QuietEvents : HandleEvent(e)
    \/ \E x \in SpawnXs, speed \in SpawnSpeeds, rand_val \in RandVals :
           RunFrame(x, speed, rand_val)

SpecNoShots == Init /\ [][NextNoShots]_vars

-----------------------------------------------------------------------------
(* Games of a player who aims at the bottom centre and shows the gesture   *)
(* on every second frame, with normal balloons only.  The loop runs at two *)
(* frames per spawn interval; from anywhere the clock may go straight to   *)
(* GAME_DURATION, which ends the game after any number of hits.            *)

HitSteps ==
    IF state = "RUN"
      THEN {BALLOON_SPAWN_INTERVAL \div 2, GAME_DURATION - since_game_start}
      ELSE {1}

\* The gesture after a frame that aimed, the open hand after the gesture.
PlayerHands ==
    IF last_heart_state \/ last_aiming_position = NoPosition
      THEN {<<OpenHand(p)>> : p \in AimPoints}
      ELSE {<<GunUp(p)>> : p \in ShootPoints}

\* Draws of random.random() that give a normal balloon.
NormalDraws == {0, 35}

NextHits ==
    \/ \E d \in HitSteps : LoopTop(d)
    \/ \E hands \in PlayerHands : Frame(hands)
    \/ \E e \in QuietEvents : HandleEvent(e)
    \/ \E x \in SpawnXs, speed \in SpawnSpeeds, rand_val \in NormalDraws :
           RunFrame(x, speed, rand_val)

SpecHits == Init /\ [][NextHits]_vars

-----------------------------------------------------------------------------
(* A player who aims once and then holds the shoot gesture, in front of a  *)
(* camera that drops frames.                                               *)

HeldHands ==
    IF last_aiming_position = NoPosition
      THEN {<<OpenHand(p)>> : p \in AimPoints}
      ELSE {<<GunUp(p)>> : p \in ShootPoints}

DropEvents == {"K_SPACE", "K_q"}

NextDrop ==
    \/ \E d \in Steps(MaxTime) : LoopTop(d)
    \/ NoFrame
    \/ \E hands \in HeldHands : Frame(hands)
    \/ \E e \in DropEvents : HandleEvent(e)
    \/ \E x \in SpawnXs, speed \in SpawnSpeeds, rand_val \in RandVals :
           RunFrame(x, speed, rand_val)
    \/ Exit

SpecDrop == Init /\ [][NextDrop]_vars

-----------------------------------------------------------------------------
(* Whole games at one spawn per frame (the loop runs at one frame per      *)
(* spawn interval or stalls for three), with ultra_rare balloons only,     *)
(* which leave the screen at the top within the game; the player aims at   *)
(* the bottom centre and shows the gesture on every second frame.          *)

SlowSteps == {BALLOON_SPAWN_INTERVAL, 3 * BALLOON_SPAWN_INTERVAL}

\* Draws of random.random() that give an ultra_rare balloon.
UltraRareDraws == {96, 99}

NextTop ==
    \/ \E d \in SlowSteps : LoopTop(d)
    \/ \E hands \in PlayerHands : Frame(hands)
    \/ HandleEvent("K_SPACE")
    \/ \E x \in SpawnXs, speed \in SpawnSpeeds, rand_val \in UltraRareDraws :
           RunFrame(x, speed, rand_val)

SpecTop == Init /\ [][NextTop]_vars

-----------------------------------------------------------------------------
(* main from its first line: the camera opens or does not, the loop, and   *)
(* every way out of it.  Until the constructors have run the variables of  *)
(* the Game and of the detector hold the values the constructors will give *)
(* them.                                                                   *)

InitMain ==
    /\ state = "READY"
    /\ score = 0
    /\ balloons_popped = 0
    /\ since_game_start = GAME_DURATION
    /\ since_last_shoot = SHOOT_COOLDOWN
    /\ since_last_spawn = BALLOON_SPAWN_INTERVAL
    /\ balloons = <<>>
    /\ shoot_effects = <<>>
    /\ running = TRUE
    /\ is_aiming = FALSE
    /\ aiming_position = NoPosition
    /\ last_heart_state = FALSE
    /\ last_aiming_position = NoPosition
    /\ dt = 0
    /\ pc = "main"
    /\ handled = 0
    /\ tickets_seconds = <<>>
    /\ heart_detector = [shoot_detected |-> FALSE, last_shoot_position |-> NoPosition,
                         aiming |-> FALSE, aiming_position |-> NoPosition]
    /\ lifecycle = <<>>
    /\ op = Op("init", None, <<>>)

\* The result of initialize not looked at
InitializedUnchecked(opened) == TRUE

\* if not camera_manager.initialize(): ... return 1
Initialized(opened) == opened

\* main up to the loop; opened: self.camera.isOpened() in initialize.
Initialize(opened) ==
    /\ pc = "main"
    /\ IF Initialized(opened)
         THEN /\ lifecycle' = Started
              /\ pc' = "top"
         ELSE /\ lifecycle' = <<"CameraManager.initialize", "return 1">>
              /\ pc' = "done"
    /\ op' = Op("initialize", IF opened THEN "opened" ELSE "failed", <<>>)
    /\ UNCHANGED <<session, running, aim, tracker, detection, dt, handled,
                   tickets_seconds>>

MainEvents == {"QUIT", "K_SPACE", "K_q"}

NextMain ==
    \/ \E opened \in BOOLEAN : Initialize(opened)
    \/ \E d \in Steps(MaxTime) : LoopTop(d)
    \/ NoFrame
    \/ \E hands \in FrameHands : Frame(hands)
    \/ \E e \in MainEvents : HandleEvent(e)
    \/ \E x \in SpawnXs, speed \in SpawnSpeeds, rand_val \in RandVals :
           RunFrame(x, speed, rand_val)
    \/ Exit
    \/ \E exception \in Exceptions : Raise(exception)

SpecMain == InitMain /\ [][NextMain]_vars

-----------------------------------------------------------------------------
(* The loop through whole sessions (start, timeout, restart, quit) with    *)
(* two aiming positions, neither of them the position of the gesture.      *)

AimEvents == {"K_SPACE", "K_r", "K_q"}

NextAim ==
    \/ \E d \in Steps(MaxTime) : LoopTop(d)
    \/ NoFrame
    \/ \E hands \in {NoHands} \cup ShootHands : Frame(hands)
    \/ \E e \in AimEvents : HandleEvent(e)
    \/ \E x \in SpawnXs, speed \in SpawnSpeeds, rand_val \in RandVals :
           RunFrame(x, speed, rand_val)
    \/ Exit

SpecAim == Init /\ [][NextAim]_vars

-----------------------------------------------------------------------------
(* The classifier over its inputs: the loop before any game is started,    *)
(* the camera showing no hand or a hand out of DetectHands.                *)

\* Index tips, one of them left of the frame and not on a whole thousandth.
DetectTips == {<<5004, 2009>>, <<-6, 10000>>}
\* From the wrist to the index tip: the directions ArcTan2Degrees lists.
DetectDirections == {<<d[2], d[1]>> : d \in DOMAIN ArcTan2Degrees}
\* A finger's PIP joint below its tip: exactly the margin, and just beyond it.
DetectGaps == {EXTENDED_MARGIN, EXTENDED_MARGIN + 1}
DetectThumbs == {<<0, 0>>, <<3000, 3000>>}

DetectHands ==
    {NoHands} \cup
    {<<Hand(tip, toward, <<g1, g2, g3, g4>>, thumb)>> :
        tip \in DetectTips, toward \in DetectDirections,
        g1 \in DetectGaps, g2 \in DetectGaps, g3 \in DetectGaps, g4 \in DetectGaps,
        thumb \in DetectThumbs}

NextDetect ==
    \/ \E d \in {0, 1} : LoopTop(d)
    \/ NoFrame
    \/ \E hands \in DetectHands : Frame(hands)
    \/ \E x \in SpawnXs, speed \in SpawnSpeeds, rand_val \in RandVals :
           RunFrame(x, speed, rand_val)

SpecDetect == Init /\ [][NextDetect]_vars

-----------------------------------------------------------------------------
(* calculate_time_tickets over its inputs: a game whose time is up, with   *)
(* any popped count up to MaxPopped, each balloon worth 10 points; the     *)
(* loop runs on with no camera frame and no key, and the result screen     *)
(* computes the tickets.                                                   *)

MaxPopped == 60

InitTickets ==
    /\ state = "RUN"
    /\ balloons_popped \in 0..MaxPopped
    /\ score = balloons_popped * ScoreValue("normal")
    /\ since_game_start = GAME_DURATION
    /\ since_last_shoot = SHOOT_COOLDOWN
    /\ since_last_spawn = BALLOON_SPAWN_INTERVAL
    /\ balloons = <<>>
    /\ shoot_effects = <<>>
    /\ running = TRUE
    /\ is_aiming = FALSE
    /\ aiming_position = NoPosition
    /\ last_heart_state = FALSE
    /\ last_aiming_position = NoPosition
    /\ dt = 0
    /\ pc = "top"
    /\ handled = 0
    /\ tickets_seconds = <<>>
    /\ heart_detector = [shoot_detected |-> FALSE, last_shoot_position |-> NoPosition,
                         aiming |-> FALSE, aiming_position |-> NoPosition]
    /\ lifecycle = Started
    /\ op = Op("init", None, <<>>)

NextTickets ==
    \/ \E d \in {0, 1} : LoopTop(d)
    \/ NoFrame
    \/ \E x \in SpawnXs, speed \in SpawnSpeeds, rand_val \in RandVals :
           RunFrame(x, speed, rand_val)

SpecTickets == InitTickets /\ [][NextTickets]_vars

-----------------------------------------------------------------------------
(* The loop that keeps ticking while the clock advances: no iteration      *)
(* stops half way, and ever again an iteration starts at a later clock     *)
(* reading than the one before.  The keys are those that start, restart    *)
(* and quit.                                                                 *)

LiveHands == FrameHands
LiveEvents == {"K_SPACE", "K_r", "K_q"}

\* An iteration that starts later than the previous one.
Tick == \E d \in Steps(MaxTime) : d > 0 /\ LoopTop(d)

NextLive ==
    \/ \E d \in Steps(MaxTime) : LoopTop(d)
    \/ NoFrame
    \/ \E hands \in LiveHands : Frame(hands)
    \/ \E e \in LiveEvents : HandleEvent(e)
    \/ \E x \in SpawnXs, speed \in SpawnSpeeds, rand_val \in RandVals :
           RunFrame(x, speed, rand_val)
    \/ Exit

LiveSpec == Init /\ [][NextLive]_vars /\ WF_vars(NextLive) /\ SF_vars(Tick)

-----------------------------------------------------------------------------
(* Properties of the session state machine                                 *)

\* C1: the state is always one of READY, RUN, RESULT, and every step that
\* changes it is READY -> RUN by the start key, RUN -> RESULT by run_frame's
\* update once GAME_DURATION has elapsed, or RESULT -> READY by the restart
\* key.
C1_Transitions ==
    /\ [](state \in States)
    /\ [][state' # state =>
            \/ /\ state = "READY" /\ state' = "RUN"
               /\ op'.name = "event" /\ op'.arg = "K_SPACE"
            \/ /\ state = "RUN" /\ state' = "RESULT"
               /\ op'.name = "run_frame" /\ since_game_start >= GAME_DURATION
            \/ /\ state = "RESULT" /\ state' = "READY"
               /\ op'.name = "event" /\ op'.arg = "K_r"]_vars

\* A whole cycle has been walked: the restart key has just left RESULT.
C1_Witness ==
    /\ state = "READY"
    /\ op.name = "event" /\ op.arg = "K_r"
    /\ op.was.state = "RESULT"

\* C2: the start key handled in READY leaves state RUN, score 0,
\* balloons_popped 0, both collections empty, and game_start_time and
\* last_balloon_spawn at the current time, whatever the session held.
C2_StartResets ==
    [][op'.name = "event" /\ op'.arg = "K_SPACE" /\ state = "READY" =>
          /\ state' = "RUN"
          /\ score' = 0
          /\ balloons_popped' = 0
          /\ balloons' = <<>>
          /\ shoot_effects' = <<>>
          /\ since_game_start' = 0
          /\ since_last_spawn' = 0]_vars

\* A game has just been started over the leftovers of the previous one.
C2_Witness ==
    /\ state = "RUN"
    /\ op.name = "event" /\ op.arg = "K_SPACE"
    /\ op.was.state = "READY"
    /\ op.was.score # 0
    /\ op.was.popped > 0
    /\ op.was.balloons > 0
    /\ op.was.effects > 0
    /\ score = 0 /\ balloons = <<>>

\* The keys handle_event gives a meaning in some state, outside that state.
OutOfState(st, e) ==
    \/ e = "K_SPACE" /\ st \in {"RUN", "RESULT"}
    \/ e = "K_r" /\ st \in {"READY", "RUN"}
    \/ e = "K_m" /\ st \in {"READY", "RESULT"}
    \/ e = "K_s" /\ st \in {"READY", "RUN"}

\* C3: a start, restart, manual-shoot or save key handled outside its
\* accepting state leaves state, score, balloons_popped, the three time
\* stamps and both collections unchanged, also when it is not the first key
\* of its frame.
C3_OutOfStateNoOp ==
    [][op'.name = "event" /\ OutOfState(state, op'.arg) => UNCHANGED session]_vars

\* Two keys in one frame: the first started the game at this frame's clock
\* reading, the second start key found RUN and was ignored.
C3_Witness ==
    /\ handled = 2
    /\ op.name = "event" /\ op.arg = "K_SPACE"
    /\ op.was.state = "RUN"
    /\ state = "RUN"
    /\ dt > 0
    /\ since_game_start = 0

\* C4: run_frame's update in RUN, once GAME_DURATION has elapsed since the
\* start, sets state to RESULT and changes nothing else of the session (no
\* spawn, no balloon or effect advanced or pruned); before that it stays in
\* RUN; and when the loop keeps ticking and the clock advances, a game in RUN
\* reaches RESULT unless the loop is left.
C4_Timeout ==
    /\ [][op'.name = "run_frame" /\ state = "RUN" =>
            IF since_game_start >= GAME_DURATION
              THEN state' = "RESULT" /\ UNCHANGED <<entities, stamps>>
              ELSE state' = "RUN"]_vars
    /\ (state = "RUN" ~> (state = "RESULT" \/ pc = "done"))

\* The timeout tick has just run over a game with balloons and effects.
C4_Witness ==
    /\ state = "RESULT"
    /\ op.name = "run_frame"
    /\ op.was.state = "RUN"
    /\ balloons # <<>>
    /\ shoot_effects # <<>>
    /\ since_last_spawn >= BALLOON_SPAWN_INTERVAL

-----------------------------------------------------------------------------
(* Properties of shoot.  A step's op'.shot is the position of the shoot    *)
(* call the step made, by the gesture edge or by the manual key.           *)

\* The shoot call of the step finds the cooldown over.
Accepted == op'.shot # <<>> /\ since_last_shoot >= SHOOT_COOLDOWN

\* C5: a shoot call, by gesture or by key, less than SHOOT_COOLDOWN after the
\* last accepted one adds no ShootEffect, changes no balloon, leaves score
\* and balloons_popped alone and does not restart the cooldown.
C5_Cooldown ==
    [][op'.shot # <<>> /\ since_last_shoot < SHOOT_COOLDOWN =>
          UNCHANGED <<entities, since_last_shoot>>]_vars

\* A manual shot 0.1 s after the accepted one: still one ShootEffect.
C5_Witness ==
    /\ op.name = "event" /\ op.shot # <<>>
    /\ since_last_shoot = 1
    /\ op.was.effects = 1
    /\ Len(shoot_effects) = 1

\* C6: an accepted shoot(x, y) appends one ShootEffect of age 0 at
\* (x / 1000 * VIRTUAL_WIDTH, y / 1000 * VIRTUAL_HEIGHT), hit or miss, and
\* takes the current time as last_shoot_time.
C6_Effect ==
    [][Accepted =>
          /\ Len(shoot_effects') = Len(shoot_effects) + 1
          /\ SubSeq(shoot_effects', 1, Len(shoot_effects)) = shoot_effects
          /\ LET e == shoot_effects'[Len(shoot_effects')]
             IN /\ e.age = 0
                /\ e.alive
                /\ e.x * NORM = op'.shot[1] * Tenths(VIRTUAL_WIDTH)
                /\ e.y * NORM = op'.shot[2] * Tenths(VIRTUAL_HEIGHT)
          /\ since_last_shoot' = 0]_vars

\* An accepted shot off the centre line has just missed the balloons on screen.
C6_Witness ==
    /\ op.shot = <<250, 500>>
    /\ since_last_shoot = 0
    /\ Len(shoot_effects) = op.was.effects + 1
    /\ shoot_effects[Len(shoot_effects)].x = 1200
    /\ shoot_effects[Len(shoot_effects)].y = 1350
    /\ balloons # <<>>
    /\ \A i \in 1..Len(balloons) : balloons[i].alive
    /\ score = op.was.score

\* The squared distance, in tenths of a unit, of balloon b to the point the
\* normalized position p maps to.
Dist2(b, p) ==
    LET dx == b.x * NORM - p[1] * Tenths(VIRTUAL_WIDTH)
        dy == b.y * NORM - p[2] * Tenths(VIRTUAL_HEIGHT)
    IN ((dx \div NORM) * (dx \div NORM)) + ((dy \div NORM) * (dy \div NORM))

\* The live balloons of bs closer than their radius + HIT_RADIUS to p.
InRange(bs, p) ==
    {i \in 1..Len(bs) :
        /\ bs[i].alive
        /\ Dist2(bs[i], p) < (bs[i].radius + Tenths(HIT_RADIUS))
                                 * (bs[i].radius + Tenths(HIT_RADIUS))}

\* C7: an accepted shot marks dead the first balloon in list order that is
\* alive and closer than its radius + HIT_RADIUS to the shot point, and
\* leaves every other balloon as it was; with no such balloon, the list is
\* unchanged.
C7_FirstHit ==
    [][Accepted =>
          LET near == InRange(balloons, op'.shot)
          IN /\ Len(balloons') = Len(balloons)
             /\ \A i \in 1..Len(balloons) :
                   balloons'[i] =
                       IF i \in near /\ \A j \in near : i <= j
                         THEN [balloons[i] EXCEPT !.alive = FALSE]
                         ELSE balloons[i]]_vars

\* A shot has hit a balloon and left alive a later one that is in range too.
C7_Witness ==
    /\ op.shot # <<>>
    /\ since_last_shoot = 0
    /\ \E i, j \in 1..Len(balloons) :
          /\ i < j
          /\ ~balloons[i].alive
          /\ balloons[j].alive
          /\ InRange([balloons EXCEPT ![i].alive = TRUE], op.shot) = {i, j}

\* C8: a shoot call that hits a balloon adds the balloon's signed score value
\* to score and adds 1 to balloons_popped exactly when that value is
\* positive (a penalty balloon: score - 30, balloons_popped unchanged); a
\* call that hits none changes neither.
C8_Score ==
    [][op'.shot # <<>> =>
          LET hit == {i \in 1..Len(balloons) :
                         balloons[i].alive /\ ~balloons'[i].alive}
          IN IF hit = {}
               THEN UNCHANGED <<score, balloons_popped>>
               ELSE \E i \in hit :
                      /\ score' = score + balloons[i].score_value
                      /\ balloons_popped' = balloons_popped
                            + (IF balloons[i].score_value > 0 THEN 1 ELSE 0)
                      /\ balloons[i].balloon_type = "penalty" =>
                            /\ score' = score - 30
                            /\ balloons_popped' = balloons_popped]_vars

\* A penalty balloon has just been hit and the score is below zero.
C8_Witness ==
    /\ op.shot # <<>>
    /\ score < 0
    /\ score = op.was.score - 30
    /\ balloons_popped = op.was.popped
    /\ \E i \in 1..Len(balloons) :
          ~balloons[i].alive /\ balloons[i].balloon_type = "penalty"

-----------------------------------------------------------------------------
(* Properties of the time tickets                                          *)

\* C9: the value the result screen gets from calculate_time_tickets is 90
\* for balloons_popped >= 30 and (balloons_popped - 15) * 6 below 30
\* (0 -> -90, 10 -> -30, 15 -> 0, 29 -> 84, 30 -> 90, 45 -> 90); it lies in
\* -90..90 and no smaller popped count gives a larger value.
C9_Tickets ==
    tickets_seconds # <<>> =>
        LET t == tickets_seconds[1]
            p == balloons_popped
        IN /\ p >= 30 => t = 90
           /\ p < 30 => t = (p - 15) * 6
           /\ p = 0 => t = -90
           /\ p = 10 => t = -30
           /\ p = 15 => t = 0
           /\ p = 29 => t = 84
           /\ p = 30 => t = 90
           /\ p = 45 => t = 90
           /\ t \in -90..90
           /\ \A q \in 0..p : CalculateTimeTickets(q) <= t

\* The result screen of a game with 45 balloons popped shows 90 seconds.
C9_Witness ==
    /\ state = "RESULT"
    /\ balloons_popped = 45
    /\ tickets_seconds = <<90>>

\* C10: while state stays RESULT, no step of the loop (frame, key, update,
\* draw) changes score or balloons_popped, the result screen's call of
\* calculate_time_tickets changes nothing of the session, and the value it
\* shows is the one of the popped count RESULT was entered with.
C10_ResultFixed ==
    /\ [](state = "RESULT" => tickets_seconds = <<CalculateTimeTickets(balloons_popped)>>)
    /\ [][state = "RESULT" /\ state' = "RESULT" =>
            /\ UNCHANGED <<score, balloons_popped>>
            /\ tickets_seconds' = tickets_seconds]_vars
    /\ [][op'.name = "run_frame" /\ state = "RESULT" => UNCHANGED session]_vars

\* The result screen has been drawn again after the shoot gesture was seen in
\* RESULT, over a game with popped balloons and balloons left on screen.
C10_Witness ==
    /\ state = "RESULT"
    /\ op.name = "run_frame"
    /\ op.was.state = "RESULT"
    /\ last_heart_state
    /\ last_aiming_position # NoPosition
    /\ balloons_popped > 0
    /\ balloons # <<>>
    /\ tickets_seconds = <<(balloons_popped - 15) * 6>>

-----------------------------------------------------------------------------
(* Properties of the classifier.  op.frame[1] is the detect call of the    *)
(* step just taken.                                                        *)

PointsUp(lm) ==
    LET dx == lm[INDEX_TIP][1] - lm[WRIST][1]
        dy == lm[INDEX_TIP][2] - lm[WRIST][2]
    IN dy < 0 /\ dx <= -dy /\ -dx <= -dy

\* Finger tip above its PIP joint by more than the margin.
TipAbovePip(lm, tip, pip) == lm[pip][2] - lm[tip][2] > EXTENDED_MARGIN

\* p is the landmark's coordinate v in thousandths, its fraction dropped.
WholeThousandths(p, v) ==
    IF v >= 0 THEN p * 10 <= v /\ v < (p + 1) * 10
    ELSE (p - 1) * 10 < v /\ v <= p * 10

C15_NoHandLabel ==
    op.frame # <<>> /\ op.frame[1].hands = NoHands =>
        /\ op.frame[1].returned = NoHand
        /\ op.frame[1].status_text = "NO HAND"

\* C16: the debug frame of a detect call on a frame with a hand is labelled
\* "SHOOTING!" exactly when the call returns shoot_detected true and "AIMING"
\* exactly when it returns is_aiming true.
C16_LabelAgrees ==
    op.frame # <<>> /\ op.frame[1].hands # NoHands =>
        /\ op.frame[1].status_text = "SHOOTING!" <=> op.frame[1].returned.heart_detected
        /\ op.frame[1].status_text = "AIMING" <=> op.frame[1].returned.is_aiming

-----------------------------------------------------------------------------
(* Properties of the gesture trigger                                       *)

\* C11: the loop calls shoot for a gesture only on a frame whose detect
\* returns shoot_detected true while the previous processed frame's returned
\* it false; in RUN with an aiming position recorded every such frame calls
\* it; last_heart_state is the value of the last processed frame, so a
\* gesture held over consecutive frames triggers once.
C11_RisingEdge ==
    /\ [][op'.name = "camera" /\ op'.frame # <<>> =>
            LET heart_detected == op'.frame[1].returned.heart_detected
                edge == heart_detected /\ ~last_heart_state
            IN /\ op'.shot # <<>> => edge
               /\ edge /\ state = "RUN" /\ last_aiming_position # NoPosition
                     => op'.shot # <<>>
               /\ last_heart_state' = heart_detected]_vars
    /\ [][op'.frame = <<>> =>
            /\ UNCHANGED last_heart_state
            /\ op'.name = "camera" => UNCHANGED <<entities, since_last_shoot>>]_vars

\* The gesture is held: the frame before showed it too, and this frame, in
\* RUN with an aiming position recorded and the cooldown over, shot nothing.
C11_Witness ==
    /\ op.name = "camera" /\ op.frame # <<>>
    /\ op.frame[1].returned.heart_detected
    /\ op.was.heart
    /\ op.shot = <<>>
    /\ state = "RUN"
    /\ last_aiming_position # NoPosition
    /\ since_last_shoot >= SHOOT_COOLDOWN
    /\ Len(shoot_effects) = op.was.effects

\* C12: a gesture trigger calls shoot with the aiming position recorded
\* before this frame, not with the position detect returns with the gesture;
\* with none recorded it calls shoot not at all; and the recorded position is
\* the aiming position of the last frame that returned is_aiming true while
\* state was READY or RUN.
C12_LastAimingPosition ==
    /\ [][op'.name = "camera" /\ op'.frame # <<>> =>
            LET r == op'.frame[1].returned
            IN /\ op'.shot # <<>> =>
                     /\ last_aiming_position # NoPosition
                     /\ op'.shot = last_aiming_position
               /\ last_aiming_position = NoPosition /\ r.heart_detected =>
                     /\ op'.shot = <<>>
                     /\ UNCHANGED <<entities, since_last_shoot>>
               /\ last_aiming_position' =
                     IF state \in {"READY", "RUN"} /\ r.is_aiming
                       THEN r.aiming_position ELSE last_aiming_position]_vars
    /\ [][op'.frame = <<>> => UNCHANGED last_aiming_position]_vars

\* A gesture at <<500, 200>> has just shot at <<250, 500>>, the position
\* recorded on an earlier frame.
C12_Witness ==
    /\ op.name = "camera" /\ op.frame # <<>>
    /\ op.frame[1].returned.heart_position = <<500, 200>>
    /\ op.shot = <<250, 500>>
    /\ last_aiming_position = <<250, 500>>
    /\ since_last_shoot = 0
    /\ shoot_effects[Len(shoot_effects)].x = 1200

-----------------------------------------------------------------------------
(* Balloon types                                                           *)

\* The score, the radius (tenths of a unit) and the speed multiplier (tenths)
\* of each balloon type.
TypeRow(balloon_type) ==
    CASE balloon_type = "normal" -> <<10, 120, 10>>
      [] balloon_type = "bonus" -> <<20, 140, 10>>
      [] balloon_type = "penalty" -> <<-30, 120, 10>>
      [] balloon_type = "fast" -> <<15, 120, 18>>
      [] balloon_type = "zigzag" -> <<15, 120, 10>>
      [] balloon_type = "ultra_rare" -> <<100, 150, 30>>

\* What a balloon keeps from its construction on.
Attributes(b) == <<b.balloon_type, b.score_value, b.radius, b.speed, b.initial_x>>

\* C17: every balloon in the list has the score and the radius of its type,
\* and its speed is a base speed times the multiplier of its type (the drawn
\* base speed, for the balloon just spawned); a frame's detection, which may
\* call Game.shoot, leaves type, score, radius and speed of every balloon as
\* they were, and after Game.update every balloon but the one just spawned
\* is a balloon of the list before, type, score, radius and speed unchanged.
C17_TypeAttributes ==
    /\ [](\A i \in 1..Len(balloons) :
            LET b == balloons[i]
                row == TypeRow(b.balloon_type)
            IN /\ b.score_value = row[1]
               /\ b.radius = row[2]
               /\ \E base \in BALLOON_SPEED_MIN..BALLOON_SPEED_MAX :
                     b.speed * 10 = base * row[3])
    /\ [][op'.name = "run_frame" /\ op'.draw # <<>> =>
            /\ balloons' # <<>>
            /\ LET b == balloons'[Len(balloons')]
               IN b.speed * 10 = op'.draw[2] * TypeRow(b.balloon_type)[3]]_vars
    /\ [][op'.name = "camera" =>
            /\ Len(balloons') = Len(balloons)
            /\ \A i \in 1..Len(balloons) :
                  Attributes(balloons'[i]) = Attributes(balloons[i])]_vars
    /\ [][op'.name = "run_frame" =>
            \A j \in 1..Len(balloons') :
               \/ j = Len(balloons') /\ op'.draw # <<>>
               \/ \E i \in 1..Len(balloons) :
                     Attributes(balloons'[j]) = Attributes(balloons[i])]_vars

\* A fast balloon of base speed 20, moved by Balloon.update, has just been
\* shot by Game.shoot: 15 points, radius 12, speed 36.
C17_Witness ==
    /\ op.name = "camera" /\ op.shot # <<>>
    /\ score = op.was.score + 15
    /\ \E i \in 1..Len(balloons) :
          /\ balloons[i].balloon_type = "fast"
          /\ ~balloons[i].alive
          /\ balloons[i].age >= 1
          /\ balloons[i].speed = 36
          /\ balloons[i].radius = 120
          /\ balloons[i].score_value = 15

\* C18: the balloon spawn_balloon appends has the first type, in the order
\* normal, bonus, penalty, fast, zigzag, ultra_rare, whose cumulative
\* probability 0.35, 0.55, 0.75, 0.85, 0.95, 1.00 is at least the draw, so a
\* draw on a boundary gives the earlier type; and a draw of exactly 1.0, which
\* random.random() does not return, is resolved to ultra_rare by the same
\* selection.
C18_SpawnType ==
    /\ op.draw # <<>> =>
          /\ balloons # <<>>
          /\ LET u == op.draw[3]
             IN balloons[Len(balloons)].balloon_type =
                   IF u <= 35 THEN "normal"
                   ELSE IF u <= 55 THEN "bonus"
                   ELSE IF u <= 75 THEN "penalty"
                   ELSE IF u <= 85 THEN "fast"
                   ELSE IF u <= 95 THEN "zigzag"
                   ELSE "ultra_rare"
    /\ PickType(100, 1) = "ultra_rare"

\* The draw 0.85, on the boundary between fast and zigzag, has just spawned
\* a fast balloon.
C18_Witness ==
    /\ op.name = "run_frame"
    /\ op.draw # <<>> /\ op.draw[3] = 85
    /\ balloons[Len(balloons)].balloon_type = "fast"
    /\ balloons[Len(balloons)].age = dt

-----------------------------------------------------------------------------
(* Whole games                                                             *)

\* C19: in a game in which nobody shoots, score and balloons_popped are 0
\* from the start on; the run_frame that finds exactly 30 s on the game's
\* clock, and no earlier one, ends the game; the result screen then shows
\* score 0, 0 balloons popped and -90 seconds of tickets.
C19_NoShots ==
    /\ [](state = "RUN" => score = 0 /\ balloons_popped = 0)
    /\ [](state = "RESULT" =>
            score = 0 /\ balloons_popped = 0 /\ tickets_seconds = <<-90>>)
    /\ [][op'.name = "run_frame" /\ state = "RUN" =>
            (state' = "RESULT" <=> since_game_start = 300)]_vars

\* A game that was started and had balloons on the screen has just ended on
\* the run_frame 30 s after the start, with -90 seconds on the result screen.
C19_Witness ==
    /\ state = "RESULT"
    /\ op.name = "run_frame" /\ op.was.state = "RUN"
    /\ since_game_start = GAME_DURATION
    /\ balloons # <<>>
    /\ score = 0 /\ balloons_popped = 0
    /\ tickets_seconds = <<-90>>

\* C20: in a game with normal balloons only, every accepted shot that hits
\* adds exactly 10 to score and 1 to balloons_popped, no other step of the
\* game changes either, so that score is 10 times balloons_popped after any
\* number of hits; a game that ends after 20 hits shows score 200, 20
\* balloons popped and 30 seconds of tickets.
C20_NormalHits ==
    /\ [](score = 10 * balloons_popped)
    /\ [][state = "RUN" =>
            LET hit == {i \in 1..Len(balloons) :
                           i <= Len(balloons') /\ op'.shot # <<>>
                           /\ balloons[i].alive /\ ~balloons'[i].alive}
            IN IF hit = {}
                 THEN UNCHANGED <<score, balloons_popped>>
                 ELSE /\ since_last_shoot >= SHOOT_COOLDOWN
                      /\ \A i \in hit : balloons[i].balloon_type = "normal"
                      /\ score' = score + 10
                      /\ balloons_popped' = balloons_popped + 1]_vars
    /\ [](state = "RESULT" /\ balloons_popped = 20 =>
            score = 200 /\ tickets_seconds = <<30>>)

\* The game has just ended after 20 hits: score 200, 30 seconds of tickets.
C20_Witness ==
    /\ state = "RESULT"
    /\ op.name = "run_frame" /\ op.was.state = "RUN"
    /\ balloons_popped = 20
    /\ score = 200
    /\ tickets_seconds = <<30>>

-----------------------------------------------------------------------------
(* The loop around the game                                                *)

\* C21: an iteration that reads no frame makes no detect call and no shoot
\* call, leaves the session, the aiming state, last_heart_state,
\* last_aiming_position and the detector as they are and goes on to the
\* events and to run_frame with the dt computed at its top, min(measured
\* time, 0.1 s); a gesture that is held while frames are dropped shoots at
\* most on the first frame that shows it.
C21_NoFrame ==
    /\ [][op'.name = "camera" /\ op'.arg = "noframe" =>
            /\ op'.frame = <<>> /\ op'.shot = <<>>
            /\ UNCHANGED <<session, aim, tracker, detection, running>>
            /\ pc' = "events"
            /\ op.name = "top"
            /\ dt = (IF op.delta[1] <= 1 THEN op.delta[1] ELSE 1)
            /\ dt' = dt]_vars
    /\ [][pc = "events" => /\ op'.name \in {"event", "run_frame"}
                           /\ dt' = dt
                           /\ op'.name = "run_frame" => pc' = "top"]_vars
    /\ [][last_heart_state => last_heart_state' /\ op'.shot = <<>>]_vars

\* The held gesture has shot, its effect is still on the screen; now a frame
\* is dropped in RUN: the bit is still set and nothing more was shot.
C21_Witness ==
    /\ op.name = "camera" /\ op.arg = "noframe"
    /\ state = "RUN"
    /\ last_heart_state
    /\ last_aiming_position # NoPosition
    /\ Len(shoot_effects) = 1
    /\ since_last_shoot > 0
    /\ dt = 1

\* How often main has made the call.
Calls(call) == Cardinality({i \in DOMAIN lifecycle : lifecycle[i] = call})

\* C22: while the loop runs nothing is released; when main has left the loop,
\* by the quit flag, by KeyboardInterrupt or by another exception raised in
\* an iteration, it has called camera_manager.release(),
\* heart_detector.release() and game.quit(), each exactly once, and only
\* then returned or passed the exception on; nothing happens after that.
C22_Cleanup ==
    /\ [](pc \in {"top", "camera", "events"} =>
            /\ lifecycle = <<"CameraManager.initialize", "HeartDetector", "Game">>
            /\ op.name \notin {"exit", "raise"})
    /\ [](op.name \in {"exit", "raise"} =>
            /\ pc = "done"
            /\ Calls("camera_manager.release") = 1
            /\ Calls("heart_detector.release") = 1
            /\ Calls("game.quit") = 1
            /\ Len(lifecycle) = 7
            /\ lifecycle[7] = (IF op.name = "raise" /\ op.arg # "KeyboardInterrupt"
                                 THEN "raise" ELSE "return 0"))
    /\ [][pc = "top" /\ ~running => op'.name = "exit"]_vars
    /\ [][pc = "done" => FALSE]_vars

\* An exception that is not KeyboardInterrupt has ended a game in RUN: the
\* three releases were made before it left main.
C22_Witness ==
    /\ op.name = "raise" /\ op.arg = "Exception"
    /\ op.was.state = "RUN"
    /\ balloons # <<>>
    /\ pc = "done"
    /\ lifecycle[4] = "camera_manager.release"
    /\ lifecycle[5] = "heart_detector.release"
    /\ lifecycle[6] = "game.quit"

\* C23: when CameraManager.initialize fails main returns 1 and has made no
\* other call: no detector, no Game, no release, and no step of the loop
\* follows; every step of the loop is taken after initialize succeeded and
\* the detector and the Game were made.
C23_CameraFailure ==
    /\ [](op.name = "initialize" /\ op.arg = "failed" =>
            /\ lifecycle = <<"CameraManager.initialize", "return 1">>
            /\ pc = "done")
    /\ [][lifecycle = <<"CameraManager.initialize", "return 1">> => FALSE]_vars
    /\ [][op'.name \notin {"initialize"} =>
            /\ Len(lifecycle) >= 3
            /\ lifecycle[1] = "CameraManager.initialize"
            /\ lifecycle[2] = "HeartDetector"
            /\ lifecycle[3] = "Game"]_vars

\* The camera did not open: main has returned 1.
C23_Witness ==
    /\ op.name = "initialize" /\ op.arg = "failed"
    /\ pc = "done"
    /\ lifecycle[Len(lifecycle)] = "return 1"
    /\ Calls("Game") = 0

\* C24: the dt of an iteration is the time measured at its top when that is
\* at most 0.1 s and 0.1 s when it is more, whatever the stall; nothing
\* changes it before run_frame, and run_frame's update in RUN ages and moves
\* the balloons by that dt.
C24_DtCap ==
    /\ [][op'.name = "top" =>
            /\ dt' <= 1
            /\ op'.delta[1] <= 1 => dt' = op'.delta[1]
            /\ op'.delta[1] > 1 => dt' = 1]_vars
    /\ [][op'.name # "top" => dt' = dt]_vars
    /\ [][(/\ op'.name = "run_frame" /\ state = "RUN" /\ state' = "RUN"
           /\ \A i \in 1..Len(balloons) : balloons[i].alive) =>
            /\ Len(balloons') = Len(balloons) + (IF op'.draw # <<>> THEN 1 ELSE 0)
            /\ \A j \in 1..Len(balloons') :
                  LET before == IF j <= Len(balloons) THEN balloons[j].age ELSE 0
                  IN balloons'[j].age = before + dt]_vars

\* The loop stalled for 29.9 s during a game; the run_frame after the stall
\* has spawned a balloon and aged it by 0.1 s.
C24_Witness ==
    /\ op.name = "run_frame"
    /\ state = "RUN"
    /\ since_game_start = GAME_DURATION - 1
    /\ dt = 1
    /\ op.draw # <<>>
    /\ balloons[Len(balloons)].age = 1
    /\ balloons[Len(balloons)].y = Tenths(VIRTUAL_HEIGHT + BALLOON_SIZE)
                                    - balloons[Len(balloons)].speed

-----------------------------------------------------------------------------
(* Properties of update                                                    *)

\* C25: run_frame's update in READY or in RESULT leaves state, score,
\* balloons_popped, the three time stamps and both collections as they are:
\* nothing spawned, aged, moved or pruned.
C25_UpdateOnlyInRun ==
    [][op'.name = "run_frame" /\ state # "RUN" =>
          UNCHANGED <<state, score, balloons_popped, since_game_start,
                      since_last_shoot, since_last_spawn, balloons, shoot_effects>>]_vars

\* A frame has run in RESULT, 0.1 s after the last, over balloons and an
\* effect left from the game, with a spawn overdue.
C25_Witness ==
    /\ op.name = "run_frame"
    /\ op.was.state = "RESULT"
    /\ state = "RESULT"
    /\ dt = 1
    /\ balloons # <<>>
    /\ shoot_effects # <<>>
    /\ since_last_spawn >= BALLOON_SPAWN_INTERVAL

\* The balloons of the list that the update's move leaves alive.
Survivors ==
    {i \in 1..Len(balloons) :
        /\ balloons[i].alive
        /\ balloons[i].y - balloons[i].speed * dt >= -2 * balloons[i].radius}

\* C26: run_frame's update in RUN that does not time out spawns exactly when
\* at least 0.8 s have passed since last_balloon_spawn.  Then last_balloon_
\* spawn is now and one balloon has been appended behind the others: alive,
\* spawned at y = 282 and at an x in 12..468, and, updated with the others in
\* the same call, now of age dt at y = 282 - speed * dt.  Otherwise no
\* balloon is added and last_balloon_spawn stays.
C26_Spawn ==
    [][op'.name = "run_frame" /\ state = "RUN" /\ state' = "RUN" =>
          IF since_last_spawn >= 8
            THEN /\ since_last_spawn' = 0
                 /\ Len(balloons') = Cardinality(Survivors) + 1
                 /\ balloons'[Len(balloons')].alive
                 /\ balloons'[Len(balloons')].age = dt
                 /\ balloons'[Len(balloons')].y =
                       2820 - balloons'[Len(balloons')].speed * dt
                 /\ balloons'[Len(balloons')].initial_x \in 120..4680
                 /\ balloons'[Len(balloons')].initial_x = Tenths(op'.draw[1])
            ELSE /\ since_last_spawn' = since_last_spawn
                 /\ Len(balloons') = Cardinality(Survivors)
                 /\ op'.draw = <<>>]_vars

\* The second balloon of a game has just been spawned, at the right end of
\* the range, behind the first, which is still in the list.
C26_Witness ==
    /\ op.name = "run_frame"
    /\ state = "RUN"
    /\ since_last_spawn = 0
    /\ Len(balloons) = 2
    /\ balloons[2].initial_x = 4680
    /\ balloons[2].age = dt
    /\ balloons[1].age > balloons[2].age

-----------------------------------------------------------------------------
(* Properties of Balloon.update and ShootEffect.update                     *)

\* C27: Balloon.update(dt) adds dt to age and takes speed * dt from y, so y
\* never grows; after it the balloon is alive exactly when it was alive
\* before and its new y is not below -2 * radius: a balloon that comes to
\* y = -2 * radius exactly stays alive, and a dead one stays dead.
C27_BalloonUpdate ==
    [][op'.name = "Balloon.update" =>
          /\ balloons'[1].age = balloons[1].age + op'.delta[1]
          /\ balloons'[1].y = balloons[1].y - balloons[1].speed * op'.delta[1]
          /\ balloons'[1].y <= balloons[1].y
          /\ balloons'[1].alive <=>
                (balloons[1].alive /\ balloons'[1].y >= -2 * balloons[1].radius)
          /\ ~balloons[1].alive => ~balloons'[1].alive]_vars

\* A fast balloon of base speed 20 (36 units a second) has come to
\* y = -24 = -2 * radius after 8.5 s and is alive.
C27_Witness ==
    /\ op.name = "Balloon.update"
    /\ balloons[1].balloon_type = "fast"
    /\ balloons[1].age = 85
    /\ balloons[1].y = -240
    /\ balloons[1].radius = 120
    /\ balloons[1].alive

\* C28: a balloon that is not a zigzag balloon is at its spawn x after any
\* number of updates; a zigzag balloon is at initial_x + 30 * sin(3 * age)
\* (29.9 units right of it at age 0.5 s, 29.9 left at age 1.6 s), never more
\* than 30 units from initial_x; no update changes initial_x.
C28_ZigzagX ==
    /\ [](balloons[1].balloon_type # "zigzag" => balloons[1].x = balloons[1].initial_x)
    /\ [](balloons[1].balloon_type = "zigzag" =>
            /\ balloons[1].x = balloons[1].initial_x + ZigzagOffset(balloons[1].age)
            /\ balloons[1].x - balloons[1].initial_x \in -300..300
            /\ balloons[1].age = 5 => balloons[1].x = balloons[1].initial_x + 299
            /\ balloons[1].age = 16 => balloons[1].x = balloons[1].initial_x - 299
            /\ balloons[1].age = 21 => balloons[1].x = balloons[1].initial_x + 5)
    /\ [][balloons'[1].initial_x = balloons[1].initial_x]_vars

\* A zigzag balloon spawned at the left end, x = 12, is 29.9 units left of
\* it after 1.6 s.
C28_Witness ==
    /\ op.name = "Balloon.update"
    /\ balloons[1].balloon_type = "zigzag"
    /\ balloons[1].initial_x = 120
    /\ balloons[1].age = 16
    /\ balloons[1].x = -179

\* C29: ShootEffect.update leaves an effect alive exactly when its age after
\* the update does not exceed the lifetime of 0.3 s: at an age of exactly
\* 0.3 s it is still alive, above it is dead.
C29_EffectDeath ==
    [][op'.name = "ShootEffect.update" /\ shoot_effects[1].alive =>
          (shoot_effects'[1].alive <=> shoot_effects'[1].age <= 3)]_vars

\* C30: over updates with dt >= 0 the radius of a ShootEffect never shrinks
\* and stays between 3 and 20; an effect alive after an update has the
\* radius 3 + 17 * (age / 0.3).  (The radius is stored times 3.)
C30_EffectRadius ==
    /\ [](shoot_effects[1].radius \in (3 * 30)..(3 * 200))
    /\ [][op'.name = "ShootEffect.update" =>
            /\ op'.delta[1] >= 0
            /\ shoot_effects'[1].radius >= shoot_effects[1].radius
            /\ shoot_effects'[1].alive =>
                  shoot_effects'[1].radius = 3 * 30 + 170 * shoot_effects'[1].age]_vars

\* An effect updated to the age of 0.2 s is alive with the radius
\* 3 + 17 * 2 / 3.
C30_Witness ==
    /\ op.name = "ShootEffect.update"
    /\ shoot_effects[1].alive
    /\ shoot_effects[1].age = 2
    /\ shoot_effects[1].radius = 430

-----------------------------------------------------------------------------
(* A whole game of slow iterations: the start key, no shot, no camera      *)
(* frame, normal balloons at the highest speed.  An update moves a balloon *)
(* by at most MAX_DT of flight, so that no balloon leaves the screen in    *)
(* the game and the list holds every balloon spawned in it.                *)

\* Iterations of half a spawn interval are followed up to MaxHalfTime after
\* the start.
MaxHalfTime == 16

HalfSteps ==
    {d \in {BALLOON_SPAWN_INTERVAL \div 2} :
        state = "RUN" /\ since_game_start < MaxHalfTime}

NextLong ==
    \/ \E d \in SlowSteps \cup HalfSteps : LoopTop(d)
    \/ NoFrame
    \/ HandleEvent("K_SPACE")
    \/ \E x \in SpawnXs, speed \in SpawnSpeeds, rand_val \in NormalDraws :
           RunFrame(x, speed, rand_val)

SpecLong == Init /\ [][NextLong]_vars

-----------------------------------------------------------------------------
(* A game in which time passes inside an iteration: Game.shoot reads        *)
(* time.time() itself, so two manual shots handled in the same iteration,   *)
(* before the update that removes the dead, may be SHOOT_COOLDOWN apart.    *)
(* The balloons are ultra_rare; the player presses the manual key only with *)
(* a balloon of the list in range of the centre.                            *)

\* The clock is followed up to MaxStallTime after the start.
MaxStallTime == 120

\* Time passing between two events of one pygame.event.get(), after a shot.
Stall(d) ==
    /\ pc = "events"
    /\ state = "RUN"
    /\ since_last_shoot < SHOOT_COOLDOWN
    /\ since_game_start + d <= MaxStallTime
    /\ since_game_start' = Later(since_game_start, d, GAME_DURATION)
    /\ since_last_shoot' = Later(since_last_shoot, d, SHOOT_COOLDOWN)
    /\ since_last_spawn' = Later(since_last_spawn, d, BALLOON_SPAWN_INTERVAL)
    /\ op' = [Op("stall", None, <<>>) EXCEPT !.delta = <<d>>]
    /\ UNCHANGED <<state, entities, running, aim, tracker, detection, dt, pc,
                   handled, tickets_seconds, lifecycle>>

\* A balloon of the list, dead or alive, is in range of the manual shot.
CentreInRange ==
    \E i \in 1..Len(balloons) :
        CollidesWith(balloons[i], VirtualX(MANUAL_X), VirtualY(MANUAL_Y),
                     Tenths(HIT_RADIUS))

StallKeys == {"K_SPACE"} \cup (IF CentreInRange THEN {"K_m"} ELSE {})

NextStall ==
    \/ /\ state = "RUN" => since_game_start + BALLOON_SPAWN_INTERVAL <= MaxStallTime
       /\ LoopTop(BALLOON_SPAWN_INTERVAL)
    \/ NoFrame
    \/ \E e \in StallKeys : HandleEvent(e)
    \/ Stall(SHOOT_COOLDOWN)
    \/ \E x \in SpawnXs, speed \in SpawnSpeeds, rand_val \in UltraRareDraws :
           RunFrame(x, speed, rand_val)

SpecStall == Init /\ [][NextStall]_vars

-----------------------------------------------------------------------------
(* Properties of the collections                                           *)

\* The effects of the list that the update's advance leaves alive.
EffectSurvivors ==
    {i \in 1..Len(shoot_effects) :
        shoot_effects[i].alive /\ shoot_effects[i].age + dt < 3}

\* The place of i among the members of S, counted from the smallest.
Rank(S, i) == Cardinality({k \in S : k <= i})

\* C31: after run_frame's update in RUN that does not time out both
\* collections hold live entries only; the balloons are those that were
\* alive and are not above the top bound after the move, in the order they
\* had, followed by the balloon spawned in this update if there is one; the
\* effects are those that have not reached their lifetime, in their order.
C31_Prune ==
    [][op'.name = "run_frame" /\ state = "RUN" /\ state' = "RUN" =>
          /\ \A j \in 1..Len(balloons') : balloons'[j].alive
          /\ \A j \in 1..Len(shoot_effects') : shoot_effects'[j].alive
          /\ Len(balloons') = Cardinality(Survivors) + (IF op'.draw # <<>> THEN 1 ELSE 0)
          /\ \A i \in Survivors :
                /\ Attributes(balloons'[Rank(Survivors, i)]) = Attributes(balloons[i])
                /\ balloons'[Rank(Survivors, i)].age = balloons[i].age + dt
          /\ Len(shoot_effects') = Cardinality(EffectSurvivors)
          /\ \A i \in EffectSurvivors :
                /\ shoot_effects'[Rank(EffectSurvivors, i)].x = shoot_effects[i].x
                /\ shoot_effects'[Rank(EffectSurvivors, i)].y = shoot_effects[i].y
                /\ shoot_effects'[Rank(EffectSurvivors, i)].age = shoot_effects[i].age + dt]_vars

\* One update has removed a balloon that was shot and one that left the
\* screen at the top, and spawned one: the list is one shorter, the oldest
\* balloon left is the first, the new one the last.
C31_Witness ==
    /\ op.name = "run_frame"
    /\ op.was.state = "RUN" /\ state = "RUN"
    /\ op.draw # <<>>
    /\ Len(balloons) = op.was.balloons - 1
    /\ Len(balloons) >= 3
    /\ balloons[Len(balloons)].age = dt
    /\ \A j \in 1..(Len(balloons) - 1) : balloons[j].age > balloons[j + 1].age
    /\ balloons[1].y < 0

-----------------------------------------------------------------------------
(* Properties of the aiming state and of the gesture edge                  *)

\* C32: a frame read while state is READY or RUN sets game.is_aiming and
\* game.aiming_position to the is_aiming and aiming_position detect returned
\* for it (false and none on a shoot verdict); while state is RESULT no step,
\* with a frame or without, changes game.is_aiming, game.aiming_position or
\* last_aiming_position.
C32_AimingApplied ==
    /\ [][op'.name = "camera" /\ op'.frame # <<>> /\ state \in {"READY", "RUN"} =>
            /\ is_aiming' = op'.frame[1].returned.is_aiming
            /\ aiming_position' = op'.frame[1].returned.aiming_position
            /\ op'.frame[1].returned.heart_detected =>
                  ~is_aiming' /\ aiming_position' = NoPosition]_vars
    /\ [][state = "RESULT" =>
            UNCHANGED <<is_aiming, aiming_position, last_aiming_position>>]_vars

\* In RESULT a frame with an open hand at <<500, 1000>> has been read: the
\* game still has the aiming state of the game's last frame, not aiming.
C32_Witness ==
    /\ op.name = "camera" /\ op.frame # <<>>
    /\ op.frame[1].returned.is_aiming
    /\ op.frame[1].returned.aiming_position = <<500, 1000>>
    /\ state = "RESULT"
    /\ ~is_aiming
    /\ aiming_position = NoPosition
    /\ last_aiming_position = NoPosition

\* C33: a frame on which the gesture appears sets last_heart_state whether or
\* not it shoots: when state is not RUN, when no aiming position is recorded
\* or when the cooldown rejects the shot; while the bit is set no frame calls
\* shoot, so that the hold, however long, fires nothing more, also after the
\* game has started or the cooldown has ended; only a frame without the
\* gesture clears the bit.
C33_EdgeConsumed ==
    /\ [][(/\ op'.name = "camera" /\ op'.frame # <<>>
           /\ op'.frame[1].returned.heart_detected /\ ~last_heart_state
           /\ \/ state # "RUN"
              \/ last_aiming_position = NoPosition
              \/ since_last_shoot < 3) =>
            /\ last_heart_state'
            /\ UNCHANGED <<score, balloons_popped, balloons, shoot_effects,
                           since_last_shoot>>]_vars
    /\ [][last_heart_state /\ op'.name = "camera" =>
            /\ op'.shot = <<>>
            /\ UNCHANGED <<score, balloons_popped, balloons, shoot_effects,
                           since_last_shoot>>]_vars
    /\ [][last_heart_state /\ ~last_heart_state' =>
            /\ op'.name = "camera" /\ op'.frame # <<>>
            /\ ~op'.frame[1].returned.heart_detected]_vars

\* The gesture appeared before the game was started and is still held on the
\* first frame of the game, with an aiming position recorded and the
\* cooldown over: nothing is shot.
C33_Witness ==
    /\ op.name = "camera" /\ op.frame # <<>>
    /\ op.frame[1].returned.heart_detected
    /\ op.was.heart
    /\ state = "RUN"
    /\ since_game_start = 0
    /\ last_aiming_position # NoPosition
    /\ since_last_shoot >= SHOOT_COOLDOWN
    /\ op.shot = <<>>
    /\ shoot_effects = <<>>

-----------------------------------------------------------------------------
(* Properties of sessions: the cooldown, the restart and the quit          *)

\* C34: the start key in READY and the restart key in RESULT leave
\* last_shoot_time as it is, so the time since the last accepted shot goes on
\* counting into the next game: a shoot call of the new game less than
\* SHOOT_COOLDOWN after the last accepted shot, of whichever game, is
\* rejected, and one SHOOT_COOLDOWN or more after it is accepted.
C34_CooldownAcrossGames ==
    /\ [][(/\ op'.name = "event"
           /\ \/ state = "READY" /\ op'.arg = "K_SPACE"
              \/ state = "RESULT" /\ op'.arg = "K_r") =>
            since_last_shoot' = since_last_shoot]_vars
    /\ [][op'.shot # <<>> /\ since_last_shoot < SHOOT_COOLDOWN =>
            UNCHANGED <<entities, since_last_shoot>>]_vars
    /\ [][op'.shot # <<>> /\ since_last_shoot >= SHOOT_COOLDOWN =>
            /\ Len(shoot_effects') = Len(shoot_effects) + 1
            /\ since_last_shoot' = 0]_vars

\* The manual key at the very start of a game, 0.1 s after the last accepted
\* shot, which was fired in the game before: rejected.
C34_Witness ==
    /\ op.name = "event" /\ op.arg = "K_m" /\ op.shot # <<>>
    /\ state = "RUN"
    /\ since_game_start = 0
    /\ since_last_shoot = 1
    /\ shoot_effects = <<>>

\* C37: the restart key in RESULT sets state to READY and changes nothing
\* else: score, balloons_popped, balloons, shoot_effects, and the three
\* timestamps are the same after it, and they stay the same through every
\* step taken in READY except the start key, which resets them.
C37_RestartKeeps ==
    /\ [][op'.name = "event" /\ op'.arg = "K_r" /\ state = "RESULT" =>
            /\ state' = "READY"
            /\ UNCHANGED <<score, balloons_popped, balloons, shoot_effects>>
            /\ UNCHANGED <<since_game_start, since_last_shoot, since_last_spawn>>
            /\ UNCHANGED <<running, aim, tracker>>]_vars
    /\ [][state = "READY" /\ state' = "READY" =>
            /\ UNCHANGED <<score, balloons_popped, balloons, shoot_effects>>
            /\ op'.name # "top" =>
                  UNCHANGED <<since_game_start, since_last_shoot,
                              since_last_spawn>>]_vars
    /\ [][state = "READY" /\ state' # "READY" =>
            /\ op'.name = "event" /\ op'.arg = "K_SPACE"
            /\ state' = "RUN"
            /\ score' = 0 /\ balloons_popped' = 0
            /\ balloons' = <<>> /\ shoot_effects' = <<>>
            /\ since_game_start' = 0 /\ since_last_spawn' = 0]_vars

\* After a restart an update in READY has run: the score and the balloons of
\* the finished game are still there.
C37_Witness ==
    /\ op.name = "run_frame"
    /\ op.was.state = "READY"
    /\ state = "READY"
    /\ score # 0
    /\ balloons_popped # 0
    /\ balloons # <<>>
    /\ shoot_effects # <<>>

\* C38: QUIT, the escape key and the q key clear running in every state,
\* return no command and change nothing else of the game; the events left in
\* the frame are still handled and run_frame still runs, after which the
\* loop is left without another iteration; running is never set again.
C38_Quit ==
    /\ [][op'.name = "event" /\ op'.arg \in {"QUIT", "K_ESCAPE", "K_q"} =>
            /\ ~running'
            /\ op'.shot = <<>>
            /\ UNCHANGED <<state, score, balloons_popped, balloons,
                           shoot_effects, since_game_start, since_last_shoot,
                           since_last_spawn>>]_vars
    /\ [][~running => ~running']_vars
    /\ [][~running /\ pc = "events" =>
            op'.name \in {"event", "run_frame"}]_vars
    /\ [][~running /\ pc = "top" => op'.name = "exit" /\ pc' = "done"]_vars
    /\ [][op'.name \in {"top", "camera"} => running]_vars

\* In READY the escape key and then the start key came in one frame: the game
\* was started and the frame's run_frame has run, with running cleared.
C38_Witness ==
    /\ op.name = "run_frame"
    /\ ~running
    /\ state = "RUN"
    /\ since_game_start = 0
    /\ pc = "top"

-----------------------------------------------------------------------------
(* Properties of the spawn rate                                            *)

\* The most spawns of one game: one each BALLOON_SPAWN_INTERVAL, the last
\* before GAME_DURATION.
MAX_SPAWNS == (GAME_DURATION - 1) \div BALLOON_SPAWN_INTERVAL

\* C35: an update appends at most one balloon, however long the iteration
\* took; it appends none before BALLOON_SPAWN_INTERVAL has passed since the
\* start of the game or since the spawn before, so that a game n balloons
\* were spawned in has run for n * BALLOON_SPAWN_INTERVAL at least; the list
\* never holds more than 37 balloons.
C35_SpawnRate ==
    /\ [][Len(balloons') <= Len(balloons) + 1]_vars
    /\ [][Len(balloons') > Len(balloons) =>
            /\ op'.name = "run_frame"
            /\ since_game_start >= BALLOON_SPAWN_INTERVAL
            /\ since_last_spawn >= BALLOON_SPAWN_INTERVAL
            /\ since_last_spawn' = 0]_vars
    /\ [](state = "RUN" =>
            Len(balloons) * BALLOON_SPAWN_INTERVAL <= since_game_start)
    /\ [](Len(balloons) <= 37 /\ MAX_SPAWNS = 37)

\* A game of 37 iterations 0.8 s apart and the one that finds the time up:
\* 37 balloons, all still in the list.
C35_Witness ==
    /\ state = "RESULT"
    /\ op.name = "run_frame"
    /\ op.was.state = "RUN"
    /\ Len(balloons) = 37
    /\ \A i \in 1..37 : balloons[i].alive /\ balloons[i].age = 38 - i

-----------------------------------------------------------------------------
(* Properties of dead balloons still in the list                           *)

\* The balloons a step takes from alive to dead, by their index.
Killed == {i \in 1..Len(balloons) : balloons[i].alive /\ ~balloons'[i].alive}

\* C36: a shoot call leaves every dead balloon of the list as it is and adds
\* to score and balloons_popped for no balloon but the one alive balloon it
\* marks dead, so that no balloon is scored twice; with an alive balloon in
\* range the accepted shot marks one dead, whether or not a dead balloon in
\* range comes before it in the list; score changes in no other way than by
\* such a hit or by the reset of start_game.
C36_ScoredOnce ==
    /\ [][op'.shot # <<>> =>
            /\ Len(balloons') = Len(balloons)
            /\ \A i \in 1..Len(balloons) :
                  ~balloons[i].alive => balloons'[i] = balloons[i]
            /\ Cardinality(Killed) <= 1
            /\ Killed = {} => score' = score /\ balloons_popped' = balloons_popped
            /\ \A i \in Killed :
                  /\ score' = score + balloons[i].score_value
                  /\ balloons_popped' =
                        balloons_popped + (IF balloons[i].score_value > 0 THEN 1 ELSE 0)
                  /\ CollidesWith(balloons[i], VirtualX(op'.shot[1]),
                                  VirtualY(op'.shot[2]), Tenths(HIT_RADIUS))]_vars
    /\ [][(/\ op'.shot # <<>> /\ since_last_shoot >= SHOOT_COOLDOWN
           /\ \E i \in 1..Len(balloons) :
                 /\ balloons[i].alive
                 /\ CollidesWith(balloons[i], VirtualX(op'.shot[1]),
                                 VirtualY(op'.shot[2]), Tenths(HIT_RADIUS))) =>
            Killed # {}]_vars
    /\ [][score' # score /\ op'.shot = <<>> =>
            op'.name = "event" /\ op'.arg = "K_SPACE" /\ score' = 0]_vars

\* The second manual shot of an iteration, SHOOT_COOLDOWN after the first:
\* the first balloon in range was dead already, from the first shot, and the
\* alive one behind it has been hit.
C36_Witness ==
    /\ op.name = "event" /\ op.arg = "K_m"
    /\ since_last_shoot = 0
    /\ Len(shoot_effects) = 2
    /\ shoot_effects[1].age = 0 /\ shoot_effects[2].age = 0
    /\ Len(balloons) >= 2
    /\ ~balloons[1].alive /\ ~balloons[2].alive
    /\ CollidesWith(balloons[1], VirtualX(MANUAL_X), VirtualY(MANUAL_Y),
                    Tenths(HIT_RADIUS))
    /\ CollidesWith(balloons[2], VirtualX(MANUAL_X), VirtualY(MANUAL_Y),
                    Tenths(HIT_RADIUS))
    /\ score = op.was.score + balloons[2].score_value
    /\ score = balloons[1].score_value + balloons[2].score_value

====
